----------------------------- MODULE VaultProofs -----------------------------
(***************************************************************************)
(* Proofs, for every value of the constants, that Inv is an invariant of   *)
(* Vault, that the safety properties of VaultProps follow from it, and     *)
(* that Vault implements SecretStore.                                      *)
(***************************************************************************)
EXTENDS VaultProps, TLAPS

-----------------------------------------------------------------------------
(***************************************************************************)
(* Facts about one state                                                   *)
(***************************************************************************)

\* The lock file lets only one process be alive (lock.rs).
LEMMA OwnerUnique ==
  ASSUME Inv, NEW p \in Procs, NEW q \in Procs,
         proc[p].pc # "off", proc[q].pc # "off"
  PROVE  p = q
BY DEF Inv, ProcOK

\* While a process that is not in the middle of a rekey is alive, there is no
\* snapshot that its commits could invalidate.
LEMMA NothingToInvalidate ==
  ASSUME Inv, NEW p \in Procs, proc[p].pc \notin {"off", "snapshot"}
  PROVE  Invalidate(proc) = proc
<1>1. proc \in [Procs -> ProcStates]
  BY DEF Inv, TypeOK
<1>2. \A q \in Procs : proc[q].pc # "snapshot"
  BY OwnerUnique
<1> QED
  BY <1>1, <1>2 DEF Invalidate

\* The constant process and table values have their types.
LEMMA OffType == Off \in ProcStates /\ EmptyTable \in Tables
BY DEF Off, ProcStates, EmptyTable, Tables

\* The constant answers have their types.
LEMMA ResultType ==
  /\ NoResult \in Results
  /\ \A n \in {0, 200, 201, 204, 404, 409, 500} : Code(n) \in Results
BY DEF NoResult, Results, NoMap, Code

\* Vault starts in a state that satisfies the invariant.
LEMMA InitInv == Init => Inv
<1> SUFFICES ASSUME Init PROVE Inv
  OBVIOUS
<1> USE DEF Init
<1>1. TypeOK
  BY OffType, ResultType DEF TypeOK, NoMeta, EmptyTable, RequestStates, FreeSlot, Ops
<1>2. SaltMatchesVerifier
  BY DEF SaltMatchesVerifier, NoMeta
<1>3. AllRowsDecrypt
  BY DEF AllRowsDecrypt, Row, EmptyTable
<1>4. ASSUME NEW p \in Procs PROVE ProcOK(p)
  BY DEF ProcOK, Off
<1>5. ASSUME NEW c \in Slots PROVE RequestOK(c)
  BY DEF RequestOK, FreeSlot, InHandler
<1>6. MutexOK
  BY DEF MutexOK, FreeSlot, InHandler
<1> QED
  BY <1>1, <1>2, <1>3, <1>4, <1>5, <1>6 DEF Inv

-----------------------------------------------------------------------------
(***************************************************************************)
(* Steps that leave the database and the requests alone                    *)
(***************************************************************************)

\* A step of one process p, which is not a server in the middle of requests,
\* that changes neither the database nor the requests: only TypeOK' for proc
\* and ProcOK(p)' are left to show.
LEMMA LocalStep ==
  ASSUME Inv, NEW p \in Procs, NEW r \in ProcStates,
         proc' = [proc EXCEPT ![p] = r],
         lock = p \/ lock = None, lock' \in {p, None},
         \A q \in Procs \ {p} : proc[q].pc = "off",
         proc[p].pc = "serving" => r.pc = "serving" \/ MutexFree(p),
         UNCHANGED <<database, rq>>,
         ProcOK(p)'
  PROVE  Inv'
<1> USE DEF Inv, database
<1>1. TypeOK'
  BY DEF TypeOK
<1>2. SaltMatchesVerifier' /\ AllRowsDecrypt'
  BY DEF SaltMatchesVerifier, AllRowsDecrypt, Row, Opens
<1>3. ASSUME NEW q \in Procs PROVE ProcOK(q)'
  <2>1. CASE q = p
    BY <2>1
  <2>2. CASE q # p
    <3>1. proc'[q].pc = "off"
      BY <2>2 DEF TypeOK
    <3> QED
      BY <3>1 DEF ProcOK
  <2> QED
    BY <2>1, <2>2
<1>4. ASSUME NEW c \in Slots PROVE RequestOK(c)'
  <2>1. ASSUME rq[c].st \in InHandler
        PROVE  rq[c].by \in Procs /\ proc'[rq[c].by].pc = "serving"
    <3>1. rq[c].by \in Procs /\ proc[rq[c].by].pc = "serving"
      BY <2>1 DEF RequestOK
    <3>2. rq[c].by = p /\ ~MutexFree(p)
      BY <2>1, <3>1 DEF MutexFree
    <3> QED
      BY <3>1, <3>2 DEF TypeOK
  <2> QED
    BY <2>1 DEF RequestOK, Wanted
<1>5. MutexOK'
  BY DEF MutexOK
<1> QED
  BY <1>1, <1>2, <1>3, <1>4, <1>5

\* When process p is alive the others are not, and p has the lock file.
LEMMA Alone ==
  ASSUME Inv, NEW p \in Procs, proc[p].pc # "off"
  PROVE  lock = p /\ \A q \in Procs \ {p} : proc[q].pc = "off"
<1>1. lock = p
  BY DEF Inv, ProcOK
<1>2. \A q \in Procs \ {p} : proc[q].pc = "off"
  BY OwnerUnique
<1> QED
  BY <1>1, <1>2

\* While the lock file is free no process is alive.
LEMMA NobodyHome ==
  ASSUME Inv, lock = None
  PROVE  \A q \in Procs : proc[q].pc = "off"
BY NoneAssumption DEF Inv, ProcOK

\* A process that exits without having requests in hand.
LEMMA ExitInv ==
  ASSUME Inv, NEW p \in Procs, proc[p].pc # "off", Exit(p),
         proc[p].pc = "serving" => MutexFree(p),
         UNCHANGED <<database, rq>>
  PROVE  Inv'
<1>1. lock = p /\ \A q \in Procs \ {p} : proc[q].pc = "off"
  BY Alone
<1>2. lock' = None /\ proc' = [proc EXCEPT ![p] = Off] /\ Off \in ProcStates
  BY <1>1, OffType DEF Exit
<1>3. proc'[p] = Off
  BY <1>2 DEF Inv, TypeOK
<1>4. ProcOK(p)'
  BY <1>3 DEF ProcOK, Off
<1> QED
  BY <1>1, <1>2, <1>4, LocalStep

-----------------------------------------------------------------------------
(***************************************************************************)
(* serve                                                                   *)
(***************************************************************************)

\* Starting a process takes the lock file, and no more.
LEMMA AcquireInv ==
  ASSUME Inv, NEW p \in Procs, NEW r \in ProcStates, Acquire(p),
         proc' = [proc EXCEPT ![p] = r],
         r.pc \in {"serve_asks", "rekey_asks"},
         UNCHANGED <<database, rq>>
  PROVE  Inv'
<1>1. lock = None /\ lock' = p /\ proc[p].pc = "off"
  BY DEF Acquire
<1>2. \A q \in Procs \ {p} : proc[q].pc = "off"
  BY <1>1, NobodyHome
<1>3. proc'[p] = r
  BY DEF Inv, TypeOK
<1>4. ProcOK(p)'
  BY <1>1, <1>3 DEF ProcOK
<1> QED
  BY <1>1, <1>2, <1>4, LocalStep

\* serve starts: it has the lock file, and asks for its passphrase
\* (commands.rs, serve; lock.rs, acquire).
LEMMA ServeLockInv ==
  ASSUME Inv, NEW p \in Procs, ServeLock(p)
  PROVE  Inv'
<1> DEFINE r == [Off EXCEPT !.pc = "serve_asks"]
<1>1. r \in ProcStates /\ r.pc = "serve_asks"
  BY OffType DEF ProcStates, ServePCs, Off
<1>2. /\ Acquire(p) /\ proc' = [proc EXCEPT ![p] = r]
      /\ UNCHANGED <<database, rq>>
  BY DEF ServeLock
<1> HIDE DEF r
<1> QED
  BY <1>1, <1>2, AcquireInv

\* The passphrase it is given is the one it derives its key from (config.rs,
\* acquire_passphrase).
LEMMA ServePassphraseInv ==
  ASSUME Inv, NEW p \in Procs, NEW pw \in Passphrases, ServePassphrase(p, pw)
  PROVE  Inv'
<1> DEFINE r == [proc[p] EXCEPT !.pc = "serve_locked", !.pw = pw]
<1>1. /\ proc[p].pc = "serve_asks" /\ proc[p] \in ProcStates
      /\ UNCHANGED <<database, lock, rq>>
  BY DEF ServePassphrase, Inv, TypeOK
<1>2. lock = p /\ \A q \in Procs \ {p} : proc[q].pc = "off"
  BY <1>1, Alone
<1>3. r \in ProcStates /\ r.pc = "serve_locked" /\ r.pw = pw
  BY <1>1 DEF ProcStates, ServePCs
<1>4. proc' = [proc EXCEPT ![p] = r]
  BY DEF ServePassphrase, Inv, TypeOK
<1> HIDE DEF r
<1>5. proc'[p] = r
  BY <1>4 DEF Inv, TypeOK
<1>6. ProcOK(p)'
  BY <1>1, <1>2, <1>3, <1>5 DEF ProcOK
<1> QED
  BY <1>1, <1>2, <1>3, <1>4, <1>6, LocalStep

\* Without a passphrase the process leaves, and everything as it was.
LEMMA NoPassphraseInv ==
  ASSUME Inv, NEW p \in Procs, NoPassphrase(p)
  PROVE  Inv'
BY ExitInv DEF NoPassphrase

\* The salt that init_or_verify reads stays the salt on disk while the lock is
\* held (crypto_state.rs).
LEMMA ServeReadSaltInv ==
  ASSUME Inv, NEW p \in Procs, ServeReadSalt(p)
  PROVE  Inv'
<1> DEFINE r == [proc[p] EXCEPT !.pc = "serve_salt", !.salt = meta.salt]
<1>1. proc[p].pc = "serve_locked" /\ proc[p] \in ProcStates
  BY DEF ServeReadSalt, Inv, TypeOK
<1>2. lock = p /\ \A q \in Procs \ {p} : proc[q].pc = "off"
  BY <1>1, Alone
<1>3. r \in ProcStates /\ r.pc = "serve_salt" /\ r.salt = meta.salt
         /\ r.pw = proc[p].pw
  BY <1>1 DEF Inv, TypeOK, ProcStates, ServePCs
<1>4. /\ proc' = [proc EXCEPT ![p] = r]
      /\ UNCHANGED <<database, lock, rq>>
  BY DEF ServeReadSalt, Inv, TypeOK
<1> HIDE DEF r
<1>5. proc'[p] = r /\ meta' = meta
  BY <1>4 DEF Inv, TypeOK, database
<1>6. r.pw \in Passphrases
  BY <1>1, <1>3 DEF Inv, ProcOK
<1>7. ProcOK(p)'
  BY <1>2, <1>3, <1>4, <1>5, <1>6 DEF ProcOK
<1> QED
  BY <1>1, <1>2, <1>3, <1>4, <1>7, LocalStep

\* A process with a verified key has the key of the committed verifier.
LEMMA KeyedType ==
  ASSUME NEW k \in MasterKeys
  PROVE  /\ Keyed(k) \in ProcStates
         /\ Keyed(k).pc = "keyed" /\ Keyed(k).key = k
BY OffType DEF Keyed, ProcStates, ServePCs, Off

\* A passphrase that opens the verifier gives the committed key; any other ends
\* the process (crypto_state.rs, verify).
LEMMA ServeVerifyInv ==
  ASSUME Inv, NEW p \in Procs, ServeVerify(p)
  PROVE  Inv'
<1> DEFINE k == derive_key(proc[p].pw, proc[p].salt)
<1>1. /\ proc[p].pc = "serve_salt" /\ proc[p].salt # None
      /\ UNCHANGED <<database, rq>>
  BY DEF ServeVerify
<1>2. lock = p /\ \A q \in Procs \ {p} : proc[q].pc = "off"
  BY <1>1, Alone
<1>3. CASE meta.verifier = k
  <2>1. k \in MasterKeys
    <3>1. proc[p].pw \in Passphrases /\ proc[p].salt \in Salts
      BY <1>1 DEF Inv, TypeOK, ProcOK, ProcStates
    <3> QED
      BY <3>1 DEF derive_key, MasterKeys
  <2>2. proc' = [proc EXCEPT ![p] = Keyed(k)] /\ lock' = lock /\ meta' = meta
    BY <1>3 DEF ServeVerify, database
  <2>3. proc'[p] = Keyed(k)
    BY <2>2 DEF Inv, TypeOK
  <2> HIDE DEF k
  <2>4. ProcOK(p)'
    BY <1>2, <1>3, <2>1, <2>2, <2>3, KeyedType, NoneAssumption DEF ProcOK
  <2> QED
    BY <1>1, <1>2, <2>1, <2>2, <2>4, KeyedType, LocalStep
<1>4. CASE meta.verifier # k
  BY <1>1, <1>4, ExitInv DEF ServeVerify
<1> QED
  BY <1>3, <1>4

\* The first run writes the salt and the verifier of one new key, when there is
\* no row yet that another key could have sealed (crypto_state.rs, initialize).
LEMMA ServeInitializeInv ==
  ASSUME Inv, NEW p \in Procs, NEW s \in Salts, ServeInitialize(p, s)
  PROVE  Inv'
<1> DEFINE k == derive_key(proc[p].pw, s)
<1> USE DEF Inv
<1>1. /\ proc[p].pc = "serve_salt" /\ proc[p].salt = None
      /\ meta' = MetaFor(k)
      /\ UNCHANGED <<projects, secrets, lock, rq>>
  BY DEF ServeInitialize
<1>2. lock = p /\ \A q \in Procs \ {p} : proc[q].pc = "off"
  BY <1>1, Alone
<1>3. proc' = [proc EXCEPT ![p] = Keyed(k)]
  BY <1>1, NothingToInvalidate DEF ServeInitialize
<1>4. k \in MasterKeys /\ k[2] = s
  <2>1. proc[p].pw \in Passphrases
    BY <1>1 DEF ProcOK
  <2> QED
    BY <2>1 DEF derive_key, MasterKeys
<1>5. meta.verifier = None
  BY <1>1 DEF ProcOK, SaltMatchesVerifier
<1>6. secrets = [id \in Ids |-> None]
  \* no row opens under "no key", so on a first run there are no rows
  <2>1. ASSUME NEW id \in Ids, secrets[id] # None PROVE FALSE
    <3>1. secrets[id].ct.key \in MasterKeys
      BY <2>1 DEF TypeOK, Tables, Rows, Ciphertexts
    <3>2. secrets[id].ct.key = None
      BY <2>1, <1>5 DEF AllRowsDecrypt, Row, Opens, opens
    <3> QED
      BY <3>1, <3>2, NoneAssumption
  <2> QED
    BY <2>1 DEF TypeOK, Tables
<1> HIDE DEF k
<1>7. meta' = [salt |-> s, verifier |-> k] /\ s # None /\ k # None
  BY <1>1, <1>4, NoneAssumption DEF MetaFor
<1>8. TypeOK'
  BY <1>1, <1>3, <1>4, <1>7, KeyedType DEF TypeOK
<1>9. SaltMatchesVerifier'
  BY <1>4, <1>7 DEF SaltMatchesVerifier
<1>10. AllRowsDecrypt'
  BY <1>1, <1>6 DEF AllRowsDecrypt, Row
<1>11. ASSUME NEW q \in Procs PROVE ProcOK(q)'
  <2>1. CASE q = p
    <3>1. proc'[q] = Keyed(k)
      BY <2>1, <1>3 DEF TypeOK
    <3> QED
      BY <2>1, <3>1, <1>1, <1>2, <1>4, <1>7, KeyedType DEF ProcOK
  <2>2. CASE q # p
    <3>1. proc'[q].pc = "off"
      BY <2>2, <1>2, <1>3 DEF TypeOK
    <3> QED
      BY <3>1 DEF ProcOK
  <2> QED
    BY <2>1, <2>2
<1>12. ASSUME NEW c \in Slots PROVE RequestOK(c)'
  <2>1. rq[c].st \notin InHandler
    BY <1>1, <1>2 DEF RequestOK
  <2> QED
    BY <1>1, <2>1 DEF RequestOK, InHandler
<1>13. MutexOK'
  BY <1>1 DEF MutexOK
<1> QED
  BY <1>8, <1>9, <1>10, <1>11, <1>12, <1>13

\* Binding the listener changes nothing but that requests are accepted
\* (commands.rs, serve).
LEMMA ServeBindInv ==
  ASSUME Inv, NEW p \in Procs, ServeBind(p)
  PROVE  Inv'
<1> DEFINE r == [proc[p] EXCEPT !.pc = "serving"]
<1>1. proc[p].pc = "keyed" /\ proc[p] \in ProcStates
  BY DEF ServeBind, Inv, TypeOK
<1>2. lock = p /\ \A q \in Procs \ {p} : proc[q].pc = "off"
  BY <1>1, Alone
<1>3. r \in ProcStates /\ r.pc = "serving" /\ r.key = proc[p].key
  BY <1>1 DEF ProcStates, ServePCs
<1>4. proc' = [proc EXCEPT ![p] = r] /\ UNCHANGED <<database, lock, rq>>
  BY DEF ServeBind, Inv, TypeOK
<1> HIDE DEF r
<1>5. proc'[p] = r /\ meta' = meta
  BY <1>4 DEF Inv, TypeOK, database
<1>6. r.key # None /\ r.key = meta.verifier
  BY <1>1, <1>3 DEF Inv, ProcOK
<1>7. ProcOK(p)'
  BY <1>2, <1>3, <1>4, <1>5, <1>6 DEF ProcOK
<1> QED
  BY <1>1, <1>2, <1>3, <1>4, <1>7, LocalStep

\* A graceful stop leaves no handler behind (commands.rs, shutdown_signal).
LEMMA ServeStopInv ==
  ASSUME Inv, NEW p \in Procs, ServeStop(p)
  PROVE  Inv'
BY ExitInv DEF ServeStop

-----------------------------------------------------------------------------
(***************************************************************************)
(* rekey                                                                   *)
(***************************************************************************)

\* rekey starts: it has the lock file, and asks (commands.rs, rekey).
LEMMA RekeyLockInv ==
  ASSUME Inv, NEW p \in Procs, RekeyLock(p)
  PROVE  Inv'
<1> DEFINE r == [Off EXCEPT !.pc = "rekey_asks"]
<1>1. r \in ProcStates /\ r.pc = "rekey_asks"
  BY OffType DEF ProcStates, RekeyPCs, Off
<1>2. /\ Acquire(p) /\ proc' = [proc EXCEPT ![p] = r]
      /\ UNCHANGED <<database, rq>>
  BY DEF RekeyLock
<1> HIDE DEF r
<1> QED
  BY <1>1, <1>2, AcquireInv

\* It goes on with two different passphrases (commands.rs,
\* acquire_new_passphrase).
LEMMA RekeyPassphrasesInv ==
  ASSUME Inv, NEW p \in Procs, NEW cur \in Passphrases, NEW new \in Passphrases,
         RekeyPassphrases(p, cur, new)
  PROVE  Inv'
<1> DEFINE r == [proc[p] EXCEPT !.pc = "rekey_locked", !.pw = cur, !.npw = new]
<1>1. /\ proc[p].pc = "rekey_asks" /\ proc[p] \in ProcStates
      /\ UNCHANGED <<database, lock, rq>>
  BY DEF RekeyPassphrases, Inv, TypeOK
<1>2. lock = p /\ \A q \in Procs \ {p} : proc[q].pc = "off"
  BY <1>1, Alone
<1>3. r \in ProcStates /\ r.pc = "rekey_locked" /\ r.pw = cur /\ r.npw = new
  BY <1>1 DEF ProcStates, RekeyPCs
<1>4. proc' = [proc EXCEPT ![p] = r]
  BY DEF RekeyPassphrases, Inv, TypeOK
<1> HIDE DEF r
<1>5. proc'[p] = r
  BY <1>4 DEF Inv, TypeOK
<1>6. ProcOK(p)'
  BY <1>1, <1>2, <1>3, <1>5 DEF ProcOK
<1> QED
  BY <1>1, <1>2, <1>3, <1>4, <1>6, LocalStep

\* rekey goes on only if the database has been initialized (crypto_state.rs,
\* get_required).
LEMMA RekeyReadSaltInv ==
  ASSUME Inv, NEW p \in Procs, RekeyReadSalt(p)
  PROVE  Inv'
<1> DEFINE r == [proc[p] EXCEPT !.pc = "rekey_salt", !.salt = meta.salt]
<1>1. /\ proc[p].pc = "rekey_locked" /\ proc[p] \in ProcStates
      /\ UNCHANGED <<database, rq>>
  BY DEF RekeyReadSalt, Inv, TypeOK
<1>2. lock = p /\ \A q \in Procs \ {p} : proc[q].pc = "off"
  BY <1>1, Alone
<1>3. CASE meta.salt = None
  BY <1>1, <1>3, ExitInv DEF RekeyReadSalt
<1>4. CASE meta.salt # None
  <2>1. r \in ProcStates /\ r.pc = "rekey_salt" /\ r.salt = meta.salt
           /\ r.pw = proc[p].pw /\ r.npw = proc[p].npw
    BY <1>1 DEF Inv, TypeOK, ProcStates, RekeyPCs
  <2>2. proc' = [proc EXCEPT ![p] = r] /\ lock' = lock
    BY <1>4 DEF RekeyReadSalt, Inv, TypeOK
  <2> HIDE DEF r
  <2>3. proc'[p] = r /\ meta' = meta
    BY <1>1, <2>2 DEF Inv, TypeOK, database
  <2>4. r.pw \in Passphrases /\ r.npw \in Passphrases
    BY <1>1, <2>1 DEF Inv, ProcOK
  <2>5. ProcOK(p)'
    BY <1>2, <1>4, <2>1, <2>2, <2>3, <2>4 DEF ProcOK
  <2> QED
    BY <1>1, <1>2, <2>1, <2>2, <2>5, LocalStep
<1> QED
  BY <1>3, <1>4

\* rekey goes on only with the committed key, and draws the new one
\* (crypto_state.rs, rekey_with_params).
LEMMA RekeyVerifyInv ==
  ASSUME Inv, NEW p \in Procs, NEW s \in Salts, RekeyVerify(p, s)
  PROVE  Inv'
<1> DEFINE k == derive_key(proc[p].pw, proc[p].salt)
           nk == derive_key(proc[p].npw, s)
           r == [Off EXCEPT !.pc = "rekey_verified", !.key = k, !.nkey = nk]
<1>1. /\ proc[p].pc = "rekey_salt"
      /\ UNCHANGED <<database, rq>>
  BY DEF RekeyVerify
<1>2. lock = p /\ \A q \in Procs \ {p} : proc[q].pc = "off"
  BY <1>1, Alone
<1>3. CASE meta.verifier = k
  <2>1. k \in MasterKeys /\ nk \in MasterKeys
    <3>1. /\ proc[p].pw \in Passphrases /\ proc[p].npw \in Passphrases
          /\ proc[p].salt \in Salts
      BY <1>1 DEF Inv, TypeOK, ProcOK, ProcStates
    <3> QED
      BY <3>1 DEF derive_key, MasterKeys
  <2>2. proc' = [proc EXCEPT ![p] = r] /\ lock' = lock /\ meta' = meta
    BY <1>3 DEF RekeyVerify, database
  <2> HIDE DEF k, nk
  <2>3. r \in ProcStates /\ r.pc = "rekey_verified" /\ r.key = k /\ r.nkey = nk
    BY <2>1, OffType DEF ProcStates, RekeyPCs, Off
  <2> HIDE DEF r
  <2>4. proc'[p] = r
    BY <2>2 DEF Inv, TypeOK
  <2>5. ProcOK(p)'
    BY <1>2, <1>3, <2>1, <2>2, <2>3, <2>4, NoneAssumption DEF ProcOK
  <2> QED
    BY <1>1, <1>2, <2>2, <2>3, <2>5, LocalStep
<1>4. CASE meta.verifier # k
  BY <1>1, <1>4, ExitInv DEF RekeyVerify
<1> QED
  BY <1>3, <1>4

\* The snapshot of BEGIN and SELECT is the committed table, with every row still
\* to be rewritten (crypto_state.rs, rekey_with_params).
LEMMA RekeySelectInv ==
  ASSUME Inv, NEW p \in Procs, RekeySelect(p)
  PROVE  Inv'
<1> DEFINE rows == {id \in Ids : secrets[id] # None}
           r == [proc[p] EXCEPT !.pc = "snapshot", !.todo = rows,
                                !.work = secrets]
<1>1. proc[p].pc = "rekey_verified" /\ proc[p] \in ProcStates
  BY DEF RekeySelect, Inv, TypeOK
<1>2. lock = p /\ \A q \in Procs \ {p} : proc[q].pc = "off"
  BY <1>1, Alone
<1>3. /\ r \in ProcStates /\ r.pc = "snapshot" /\ r.todo = rows
      /\ r.work = secrets /\ r.key = proc[p].key /\ r.nkey = proc[p].nkey
  BY <1>1 DEF ProcStates, RekeyPCs, Inv, TypeOK
<1>4. proc' = [proc EXCEPT ![p] = r] /\ UNCHANGED <<database, lock, rq>>
  BY DEF RekeySelect, Inv, TypeOK
<1> HIDE DEF r
<1>5. proc'[p] = r /\ meta' = meta /\ secrets' = secrets
  BY <1>4 DEF Inv, TypeOK, database
<1>6. r.key # None /\ r.key = meta.verifier /\ r.nkey # None
  BY <1>1, <1>3 DEF Inv, ProcOK
<1>7. ASSUME NEW id \in Ids PROVE WorkRowOK(r, id)
  <2>1. secrets[id] # None =>
          /\ secrets[id].ct \in Ciphertexts
          /\ secrets[id].ct.key = r.key /\ secrets[id].ct.aad = id
    BY <1>6 DEF Inv, AllRowsDecrypt, Row, Opens, opens, TypeOK, Tables, Rows
  <2> QED
    BY <1>3, <2>1 DEF WorkRowOK, encrypt, Ciphertexts
<1>8. ProcOK(p)'
  BY <1>2, <1>3, <1>4, <1>5, <1>6, <1>7 DEF ProcOK, WorkRowOK
<1> QED
  BY <1>1, <1>2, <1>3, <1>4, <1>8, LocalStep

\* One turn of the rekey loop moves one row of the transaction from the old key
\* to the new one and keeps its secret and version (crypto_state.rs).
LEMMA RekeyRowInv ==
  ASSUME Inv, NEW p \in Procs, NEW id \in Ids, RekeyRow(p, id)
  PROVE  Inv'
<1> DEFINE q == proc[p]
           r == Rewritten(q, id)
           new == [ct |-> encrypt(q.nkey, q.work[id].ct.plain, id),
                   ver |-> q.work[id].ver]
<1>1. /\ q.pc \in {"snapshot", "rewriting"} /\ id \in q.todo
      /\ q \in ProcStates
  BY DEF RekeyRow, MayWrite, Inv, TypeOK
<1>2. lock = p /\ \A i \in Procs \ {p} : proc[i].pc = "off"
  BY <1>1, Alone
<1>3. /\ q.nkey \in MasterKeys /\ q.key = meta.verifier /\ q.key # None
      /\ \A i \in Ids : WorkRowOK(q, i)
  BY <1>1 DEF Inv, ProcOK, ProcStates
<1>4. q.work \in Tables /\ q.todo \in SUBSET Ids
  BY <1>1 DEF ProcStates
<1>5. proc' = [proc EXCEPT ![p] = r] /\ UNCHANGED <<database, lock, rq>>
  BY DEF RekeyRow
<1>6. proc'[p] = r /\ meta' = meta /\ secrets' = secrets /\ lock' = p
  BY <1>2, <1>5 DEF Inv, TypeOK, database
<1> HIDE DEF q
<1>7. q.work[id] \in Rows /\ q.work[id] # None
  BY <1>1, <1>3, <1>4 DEF Tables, WorkRowOK
<1>8. new \in Rows
  BY <1>3, <1>7 DEF Rows, Ciphertexts, encrypt
<1>9. /\ r.pc = "rewriting" /\ r.todo = q.todo \ {id}
      /\ r.work = [q.work EXCEPT ![id] = new]
      /\ r.key = q.key /\ r.nkey = q.nkey
  BY <1>1 DEF Rewritten, ProcStates
<1>10. r.work \in Tables /\ r.todo \in SUBSET Ids
  <2> HIDE DEF new
  <2> QED
    BY <1>4, <1>8, <1>9 DEF Tables
<1>11. r \in ProcStates
  <2> HIDE DEF new
  <2>1. r = [q EXCEPT !.pc = "rewriting", !.todo = q.todo \ {id},
                      !.work = r.work]
    BY <1>9 DEF Rewritten, new
  <2> QED
    BY <1>1, <1>10, <2>1 DEF ProcStates, RekeyPCs
<1> HIDE DEF r
<1>12. ASSUME NEW i \in Ids PROVE WorkRowOK(r, i)
  <2>1. CASE i = id
    <3>1. r.work[i] = new /\ i \notin r.todo
      BY <2>1, <1>4, <1>9 DEF Tables
    <3>2. /\ q.work[i].ct.plain = secrets[i].ct.plain
          /\ q.work[i].ver = secrets[i].ver /\ secrets[i] # None
      <4>1. WorkRowOK(q, i) /\ q.work[i] # None
        BY <2>1, <1>3, <1>7
      <4>2. q.work[i].ct = encrypt(IF i \in q.todo THEN q.key ELSE q.nkey,
                                   secrets[i].ct.plain, i)
        BY <4>1 DEF WorkRowOK
      <4>3. q.work[i].ct.plain = secrets[i].ct.plain
        BY <4>2 DEF encrypt
      <4> QED
        BY <4>1, <4>3 DEF WorkRowOK
    <3>3. new # None
      BY <1>8, NoneAssumption
    <3>4. new.ver = secrets[i].ver
            /\ new.ct = encrypt(r.nkey, secrets[i].ct.plain, i)
      BY <2>1, <3>2, <1>9
    <3> HIDE DEF new
    <3> QED
      BY <3>1, <3>2, <3>3, <3>4 DEF WorkRowOK
  <2>2. CASE i # id
    <3>1. r.work[i] = q.work[i] /\ (i \in r.todo <=> i \in q.todo)
      BY <2>2, <1>4, <1>9 DEF Tables
    <3> QED
      BY <3>1, <1>3, <1>9 DEF WorkRowOK
  <2> QED
    BY <2>1, <2>2
<1>13. ProcOK(p)'
  <2>1. r.key # None /\ r.key = meta.verifier /\ r.nkey # None
    BY <1>3, <1>9, NoneAssumption
  <2> QED
    BY <1>6, <1>9, <1>12, <2>1 DEF ProcOK, WorkRowOK
<1> QED
  BY <1>1, <1>2, <1>5, <1>6, <1>11, <1>13, LocalStep DEF q

\* With no row left to do, the private copy is the committed table under the
\* new key, and no other process is alive to hold the old one.
LEMMA RekeyCommitInv ==
  ASSUME Inv, NEW p \in Procs, RekeyCommit(p)
  PROVE  Inv'
<1> DEFINE k == proc[p].nkey
<1> USE DEF Inv
<1>1. /\ proc[p].pc \in {"snapshot", "rewriting"} /\ proc[p].todo = {}
      /\ proc[p] \in ProcStates
      /\ secrets' = proc[p].work /\ meta' = MetaFor(k)
      /\ UNCHANGED <<projects, rq>>
  BY DEF RekeyCommit, MayWrite, TypeOK
<1>2. lock = p /\ \A q \in Procs \ {p} : proc[q].pc = "off"
  BY <1>1, Alone
<1>3. /\ proc' = [proc EXCEPT ![p] = Off] /\ lock' = None
  <2>1. \A q \in Procs \ {p} : Invalidate(proc)[q] = proc[q]
    BY <1>2 DEF Invalidate
  <2>2. proc \in [Procs -> ProcStates]
    BY DEF TypeOK
  <2> QED
    BY <1>2, <2>1, <2>2 DEF RekeyCommit, Invalidate
<1>4. /\ k \in MasterKeys /\ k # None
      /\ \A id \in Ids : WorkRowOK(proc[p], id)
  BY <1>1, NoneAssumption DEF ProcOK, ProcStates
<1>5. proc[p].work \in Tables
  BY <1>1 DEF ProcStates
<1>6. meta' = [salt |-> k[2], verifier |-> k] /\ k[2] \in Salts /\ k[2] # None
  BY <1>1, <1>4, NoneAssumption DEF MetaFor, MasterKeys
<1>7. TypeOK'
  BY <1>1, <1>3, <1>4, <1>5, <1>6, OffType DEF TypeOK
<1>8. SaltMatchesVerifier'
  BY <1>4, <1>6 DEF SaltMatchesVerifier
<1>9. AllRowsDecrypt'
  <2>1. ASSUME NEW id \in Ids, proc[p].work[id] # None
        PROVE  opens(k, proc[p].work[id].ct, id)
    <3>1. proc[p].work[id].ct = encrypt(k, secrets[id].ct.plain, id)
      BY <2>1, <1>1, <1>4 DEF WorkRowOK
    <3> QED
      BY <3>1 DEF opens, encrypt
  <2> QED
    BY <1>1, <1>6, <2>1 DEF AllRowsDecrypt, Row, Opens
<1>10. ASSUME NEW q \in Procs PROVE ProcOK(q)'
  <2>1. proc'[q].pc = "off"
    BY <1>2, <1>3 DEF TypeOK, Off
  <2> QED
    BY <2>1 DEF ProcOK
<1>11. ASSUME NEW c \in Slots PROVE RequestOK(c)'
  <2>1. rq[c].st \notin InHandler
    BY <1>1, <1>2 DEF RequestOK
  <2> QED
    BY <1>1, <2>1 DEF RequestOK, InHandler
<1>12. MutexOK'
  BY <1>1 DEF MutexOK
<1> QED
  BY <1>7, <1>8, <1>9, <1>10, <1>11, <1>12

\* A rekey that fails is rolled back: the committed database is as it was.
LEMMA RekeyAbortsInv ==
  ASSUME Inv, NEW p \in Procs, RekeyAborts(p)
  PROVE  Inv'
BY ExitInv DEF RekeyAborts

-----------------------------------------------------------------------------
(***************************************************************************)
(* The rest of the world                                                   *)
(***************************************************************************)

\* A crash rolls back and frees the lock file; nothing committed changes.
LEMMA CrashInv ==
  ASSUME Inv, NEW p \in Procs, Crash(p)
  PROVE  Inv'
<1> USE DEF Inv
<1>1. /\ proc[p].pc # "off" /\ proc' = [proc EXCEPT ![p] = Off]
      /\ meta' = meta /\ projects' = projects /\ secrets' = secrets
  BY DEF Crash, Exit, database
<1>2. lock = p /\ \A q \in Procs \ {p} : proc[q].pc = "off"
  BY <1>1, Alone
<1>3. lock' = None
  BY <1>2 DEF Crash, Exit
<1>4. ASSUME NEW c \in Slots
      PROVE  /\ rq'[c] \in RequestStates /\ rq'[c].st \notin InHandler
             /\ rq'[c].op = rq[c].op /\ rq'[c].id = rq[c].id
             /\ rq'[c].val = rq[c].val
             /\ rq[c].st = "free" => rq'[c].st = "free"
  <2>1. rq[c] \in RequestStates
    BY DEF TypeOK
  <2>2. rq[c].st \in InHandler => rq[c].by = p
    BY <1>2 DEF RequestOK
  <2>3. CASE rq[c].st \in InHandler
    <3>1. rq'[c] = [rq[c] EXCEPT !.st = "done", !.by = None, !.res = Code(0)]
      BY <2>2, <2>3 DEF Crash
    <3>2. Code(0) \in Results
      BY ResultType
    <3>3. rq'[c] \in RequestStates
      BY <2>1, <3>1, <3>2 DEF RequestStates
    <3>4. /\ rq'[c].st = "done" /\ rq'[c].op = rq[c].op
          /\ rq'[c].id = rq[c].id /\ rq'[c].val = rq[c].val
      BY <2>1, <3>1 DEF RequestStates
    <3> QED
      BY <2>3, <3>3, <3>4 DEF InHandler
  <2>4. CASE rq[c].st \notin InHandler
    BY <2>1, <2>4 DEF Crash
  <2> QED
    BY <2>3, <2>4
<1>5. TypeOK'
  <2>1. rq' \in [Slots -> RequestStates]
    <3>1. rq' = [c \in Slots |-> rq'[c]]
      BY DEF Crash
    <3> QED
      BY <1>4, <3>1
  <2> QED
    BY <1>1, <1>3, <2>1, OffType DEF TypeOK
<1>6. SaltMatchesVerifier' /\ AllRowsDecrypt'
  BY <1>1 DEF SaltMatchesVerifier, AllRowsDecrypt, Row, Opens
<1>7. ASSUME NEW q \in Procs PROVE ProcOK(q)'
  <2>1. proc'[q].pc = "off"
    BY <1>1, <1>2 DEF TypeOK, Off
  <2> QED
    BY <2>1 DEF ProcOK
<1>8. ASSUME NEW c \in Slots PROVE RequestOK(c)'
  <2>1. rq[c].st # "free" =>
          [op |-> rq[c].op, id |-> rq[c].id, val |-> rq[c].val] \in Requests
    BY DEF RequestOK
  <2>2. rq'[c].st # "free" =>
          [op |-> rq'[c].op, id |-> rq'[c].id, val |-> rq'[c].val] \in Requests
    <3>1. [op |-> rq'[c].op, id |-> rq'[c].id, val |-> rq'[c].val]
            = [op |-> rq[c].op, id |-> rq[c].id, val |-> rq[c].val]
      BY <1>4
    <3>2. rq[c].st = "free" => rq'[c].st = "free"
      BY <1>4
    <3> QED
      BY <2>1, <3>1, <3>2
  <2>3. rq'[c].st \notin {"looked", "written"}
    BY <1>4 DEF InHandler
  <2> QED
    BY <2>2, <2>3 DEF RequestOK, InHandler
<1>9. MutexOK'
  BY <1>4 DEF MutexOK
<1> QED
  BY <1>5, <1>6, <1>7, <1>8, <1>9

\* A token command can only make an open rekey transaction fail.
LEMMA CliTokenCommitInv ==
  ASSUME Inv, CliTokenCommit
  PROVE  Inv'
<1>1. PICK p \in Procs : proc[p].pc = "snapshot"
  BY DEF CliTokenCommit
<1> DEFINE r == [proc[p] EXCEPT !.stale = TRUE]
<1>2. lock = p /\ \A q \in Procs \ {p} : proc[q].pc = "off"
  BY <1>1, Alone
<1>3. proc \in [Procs -> ProcStates] /\ proc[p] \in ProcStates
  BY DEF Inv, TypeOK
<1>4. proc' = [proc EXCEPT ![p] = r]
  BY <1>1, <1>2, <1>3 DEF CliTokenCommit, Invalidate
<1>5. /\ r \in ProcStates /\ r.pc = "snapshot" /\ r.key = proc[p].key
      /\ r.nkey = proc[p].nkey /\ r.todo = proc[p].todo /\ r.work = proc[p].work
  BY <1>1, <1>3 DEF ProcStates
<1>6. UNCHANGED <<database, lock, rq>>
  BY DEF CliTokenCommit
<1> HIDE DEF r
<1>7. proc'[p] = r /\ meta' = meta /\ secrets' = secrets
  BY <1>3, <1>4, <1>6 DEF database
<1>8. ProcOK(p)'
  <2>1. /\ r.key # None /\ r.key = meta.verifier /\ r.nkey # None
        /\ \A id \in Ids : WorkRowOK(proc[p], id)
    BY <1>1, <1>5 DEF Inv, ProcOK
  <2>2. \A id \in Ids : WorkRowOK(r, id)
    BY <1>5, <2>1 DEF WorkRowOK
  <2> QED
    BY <1>2, <1>5, <1>6, <1>7, <2>1, <2>2 DEF ProcOK, WorkRowOK
<1> QED
  BY <1>1, <1>2, <1>4, <1>5, <1>6, <1>8, LocalStep

-----------------------------------------------------------------------------
(***************************************************************************)
(* Requests                                                                *)
(***************************************************************************)

\* The mutex and the lock file together: one handler at a time, anywhere.
LEMMA OneHandler ==
  ASSUME Inv, NEW c \in Slots, NEW d \in Slots,
         rq[c].st \in InHandler, rq[d].st \in InHandler
  PROVE  c = d
<1>1. /\ rq[c].by \in Procs /\ proc[rq[c].by].pc = "serving"
      /\ rq[d].by \in Procs /\ proc[rq[d].by].pc = "serving"
  BY DEF Inv, RequestOK
<1>2. rq[c].by = rq[d].by
  BY <1>1, OwnerUnique
<1> QED
  BY <1>2 DEF Inv, MutexOK

\* A step of one request c: what is left to show is about c and the tables.
LEMMA RequestStep ==
  ASSUME Inv, NEW c \in Slots, NEW r \in RequestStates,
         rq' = [rq EXCEPT ![c] = r],
         UNCHANGED <<meta, lock, proc>>,
         projects' \in SUBSET Projects, secrets' \in Tables,
         UNCHANGED <<projects, secrets>> \/ rq[c].st \in InHandler,
         r.st \in InHandler =>
           \/ rq[c].st \in InHandler /\ r.by = rq[c].by
           \/ MutexFree(r.by),
         AllRowsDecrypt', RequestOK(c)'
  PROVE  Inv'
<1> USE DEF Inv
<1>1. TypeOK'
  BY DEF TypeOK
<1>2. SaltMatchesVerifier'
  BY DEF SaltMatchesVerifier
<1>3. ASSUME NEW q \in Procs PROVE ProcOK(q)'
  <2>1. CASE UNCHANGED <<projects, secrets>>
    BY <2>1 DEF ProcOK, WorkRowOK
  <2>2. CASE rq[c].st \in InHandler
    <3>1. rq[c].by \in Procs /\ proc[rq[c].by].pc = "serving"
      BY <2>2 DEF RequestOK
    <3>2. proc[q].pc \in {"off", "serving"}
      BY <3>1, OwnerUnique
    <3> QED
      BY <3>2 DEF ProcOK
  <2> QED
    BY <2>1, <2>2
<1>4. ASSUME NEW d \in Slots, d # c
      PROVE  RequestOK(d)' /\ rq'[d] = rq[d]
  <2>1. rq'[d] = rq[d]
    BY <1>4 DEF TypeOK
  <2>2. CASE UNCHANGED <<projects, secrets>>
    BY <2>1, <2>2 DEF RequestOK, Wanted
  <2>3. CASE rq[c].st \in InHandler
    <3>1. rq[d].st \notin InHandler
      BY <1>4, <2>3, OneHandler
    <3>2. RequestOK(d)
      OBVIOUS
    <3> QED
      BY <2>1, <3>1, <3>2 DEF RequestOK, InHandler
  <2> QED
    BY <2>1, <2>2, <2>3
<1>5. ASSUME NEW d \in Slots PROVE RequestOK(d)'
  BY <1>4
<1>6. MutexOK'
  <2>1. rq'[c] = r
    BY DEF TypeOK
  <2>2. ASSUME NEW d \in Slots, d # c, r.st \in InHandler, rq[d].st \in InHandler
        PROVE  rq[d].by # r.by
    <3>1. CASE rq[c].st \in InHandler
      BY <2>2, <3>1, OneHandler
    <3>2. CASE MutexFree(r.by)
      BY <2>2, <3>2 DEF MutexFree
    <3> QED
      BY <2>2, <3>1, <3>2
  <2>3. MutexOK
    OBVIOUS
  <2> QED
    BY <1>4, <2>1, <2>2, <2>3 DEF MutexOK
<1> QED
  BY <1>1, <1>2, <1>3, <1>5, <1>6

\* A request that ends with answer res, having changed no table.
LEMMA EndOfRequest ==
  ASSUME Inv, NEW c \in Slots, NEW res \in Results, NEW by \in Procs \cup {None},
         rq[c].st # "free",
         rq' = [rq EXCEPT ![c] = [rq[c] EXCEPT !.st = "done", !.by = by,
                                               !.res = res]],
         UNCHANGED <<meta, lock, proc>>,
         projects' \in SUBSET Projects, secrets' \in Tables,
         UNCHANGED <<projects, secrets>> \/ rq[c].st \in InHandler,
         AllRowsDecrypt'
  PROVE  Inv'
<1> DEFINE r == [rq[c] EXCEPT !.st = "done", !.by = by, !.res = res]
<1>1. rq[c] \in RequestStates
  BY DEF Inv, TypeOK
<1>2. r \in RequestStates
  BY <1>1 DEF RequestStates
<1>3. /\ r.st = "done" /\ r.op = rq[c].op /\ r.id = rq[c].id
      /\ r.val = rq[c].val
  BY <1>1 DEF RequestStates
<1> HIDE DEF r
<1>4. rq' = [rq EXCEPT ![c] = r]
  BY DEF r
<1>5. rq'[c] = r
  BY <1>4 DEF Inv, TypeOK
<1>6. [op |-> r.op, id |-> r.id, val |-> r.val] \in Requests
  <2>1. [op |-> rq[c].op, id |-> rq[c].id, val |-> rq[c].val] \in Requests
    BY DEF Inv, RequestOK
  <2> QED
    BY <1>3, <2>1
<1>7. RequestOK(c)'
  BY <1>3, <1>5, <1>6 DEF RequestOK, InHandler
<1>8. r.st \notin InHandler
  BY <1>3 DEF InHandler
<1> QED
  BY <1>2, <1>4, <1>7, <1>8, RequestStep

\* The rows of unchanged tables still open.
LEMMA SameRows ==
  ASSUME Inv, UNCHANGED <<meta, secrets>>
  PROVE  AllRowsDecrypt' /\ secrets' \in Tables
BY DEF Inv, TypeOK, AllRowsDecrypt, Row, Opens

\* A request refused or lost before it has the mutex.
LEMMA AnsweredInv ==
  ASSUME Inv, NEW c \in Slots, NEW res \in Results, rq[c].st = "sent",
         rq' = Answered(c, res), UNCHANGED <<database, lock, proc>>
  PROVE  Inv'
<1>1. rq[c] \in RequestStates /\ rq \in [Slots -> RequestStates]
  BY DEF Inv, TypeOK
<1>2. rq' = [rq EXCEPT ![c] = [rq[c] EXCEPT !.st = "done", !.by = rq[c].by,
                                            !.res = res]]
  BY <1>1 DEF Answered, RequestStates
<1>3. rq[c].by \in Procs \cup {None}
  BY <1>1 DEF RequestStates
<1>4. /\ UNCHANGED <<meta, lock, proc>> /\ UNCHANGED <<projects, secrets>>
      /\ projects' \in SUBSET Projects
  BY DEF database, Inv, TypeOK
<1>5. AllRowsDecrypt' /\ secrets' \in Tables
  BY <1>4, SameRows
<1>6. rq[c].st # "free"
  OBVIOUS
<1> QED
  BY <1>2, <1>3, <1>4, <1>5, <1>6, EndOfRequest

\* A handler that returns res, dropping the mutex guard.
LEMMA FinishInv ==
  ASSUME Inv, NEW c \in Slots, NEW res \in Results, rq[c].st \in InHandler,
         Finish(c, res), UNCHANGED <<meta, lock, proc>>,
         projects' \in SUBSET Projects, secrets' \in Tables, AllRowsDecrypt'
  PROVE  Inv'
<1>1. rq[c] \in RequestStates /\ rq \in [Slots -> RequestStates]
  BY DEF Inv, TypeOK
<1>2. rq' = [rq EXCEPT ![c] = [rq[c] EXCEPT !.st = "done", !.by = None,
                                            !.res = res]]
  BY <1>1 DEF Finish, RequestStates
<1>3. rq[c].st # "free"
  BY DEF InHandler
<1> QED
  BY <1>2, <1>3, EndOfRequest

\* A client that sends a request changes no table.
LEMMA SendInv ==
  ASSUME Inv, NEW c \in Slots, NEW q \in Requests, Send(c, q)
  PROVE  Inv'
<1> DEFINE r == [st |-> "sent", op |-> q.op, id |-> q.id, val |-> q.val,
                 by |-> None, res |-> NoResult]
<1>1. /\ q.op \in Ops
      /\ q.id \in Projects \X (SecretKeys \cup {None})
      /\ q.val \in Values \cup {None}
      /\ q = [op |-> q.op, id |-> q.id, val |-> q.val]
  BY DEF Requests, Ids, Ops
<1>2. /\ r \in RequestStates
      /\ r.st = "sent" /\ r.op = q.op /\ r.id = q.id /\ r.val = q.val
  <2>1. NoResult \in Results
    BY ResultType
  <2> QED
    BY <1>1, <2>1 DEF RequestStates
<1>3. rq' = [rq EXCEPT ![c] = r] /\ UNCHANGED <<database, lock, proc>>
  BY DEF Send
<1> HIDE DEF r
<1>4. /\ UNCHANGED <<meta, lock, proc>> /\ UNCHANGED <<projects, secrets>>
      /\ projects' \in SUBSET Projects
  BY <1>3 DEF database, Inv, TypeOK
<1>5. AllRowsDecrypt' /\ secrets' \in Tables
  BY <1>4, SameRows
<1>6. rq'[c] = r
  BY <1>3 DEF Inv, TypeOK
<1>7. [op |-> r.op, id |-> r.id, val |-> r.val] \in Requests
  BY <1>1, <1>2
<1>8. RequestOK(c)'
  BY <1>2, <1>6, <1>7 DEF RequestOK, InHandler
<1>9. r.st \notin InHandler
  BY <1>2 DEF InHandler
<1> QED
  BY <1>2, <1>3, <1>4, <1>5, <1>8, <1>9, RequestStep

\* A request to a server that is down ends without an answer.
LEMMA UnreachableInv ==
  ASSUME Inv, NEW c \in Slots, Unreachable(c)
  PROVE  Inv'
BY ResultType, AnsweredInv DEF Unreachable

\* A handler whose project lookup fails answers 500 and has changed nothing
\* (error.rs).
LEMMA LookupFailsInv ==
  ASSUME Inv, NEW c \in Slots, NEW p \in Procs, LookupFails(c, p)
  PROVE  Inv'
BY ResultType, AnsweredInv DEF LookupFails

\* A handler that gets the mutex has found the project as it wants it, or has
\* answered 404 or 409 (handlers.rs).
LEMMA LookupInv ==
  ASSUME Inv, NEW c \in Slots, NEW p \in Procs, Lookup(c, p)
  PROVE  Inv'
<1>1. /\ rq[c].st = "sent" /\ proc[p].pc = "serving" /\ MutexFree(p)
      /\ UNCHANGED <<database, lock, proc>>
  BY DEF Lookup
<1>2. CASE ~Wanted(c)
  <2>1. Code(409) \in Results /\ Code(404) \in Results
    BY ResultType
  <2>2. PICK res \in Results : rq' = Answered(c, res)
    BY <1>2, <2>1 DEF Lookup
  <2> QED
    BY <1>1, <2>2, AnsweredInv
<1>3. CASE Wanted(c)
  <2> DEFINE r == [rq[c] EXCEPT !.st = "looked", !.by = p]
  <2>1. rq[c] \in RequestStates /\ rq \in [Slots -> RequestStates]
    BY DEF Inv, TypeOK
  <2>2. rq' = [rq EXCEPT ![c] = r]
    BY <1>3, <2>1 DEF Lookup
  <2>3. /\ r \in RequestStates /\ r.st = "looked" /\ r.by = p
        /\ r.op = rq[c].op /\ r.id = rq[c].id /\ r.val = rq[c].val
    BY <2>1 DEF RequestStates, InHandler
  <2> HIDE DEF r
  <2>4. rq'[c] = r
    BY <2>1, <2>2
  <2>5. /\ UNCHANGED <<meta, lock, proc>> /\ UNCHANGED <<projects, secrets>>
        /\ projects' \in SUBSET Projects
    BY <1>1 DEF database, Inv, TypeOK
  <2>6. AllRowsDecrypt' /\ secrets' \in Tables
    BY <2>5, SameRows
  <2>7. [op |-> r.op, id |-> r.id, val |-> r.val] \in Requests
    <3>1. [op |-> rq[c].op, id |-> rq[c].id, val |-> rq[c].val] \in Requests
      BY <1>1 DEF Inv, RequestOK
    <3> QED
      BY <2>3, <3>1
  <2>8. Wanted(c)'
    BY <1>3, <2>3, <2>4, <2>5 DEF Wanted
  <2>9. RequestOK(c)'
    BY <1>1, <2>3, <2>4, <2>5, <2>7, <2>8 DEF RequestOK, InHandler
  <2> QED
    BY <1>1, <2>2, <2>3, <2>5, <2>6, <2>9, RequestStep
<1> QED
  BY <1>2, <1>3

\* A new project has no rows and disturbs none (handlers.rs, create_project).
LEMMA CreateInsertInv ==
  ASSUME Inv, NEW c \in Slots, CreateInsert(c)
  PROVE  Inv'
<1>1. rq[c].st \in InHandler /\ rq[c].op = "create"
  BY DEF CreateInsert, Handling, InHandler
<1>2. rq[c].id[1] \in Projects
  <2>1. [op |-> rq[c].op, id |-> rq[c].id, val |-> rq[c].val] \in Requests
    BY <1>1 DEF Inv, RequestOK, InHandler
  <2> QED
    BY <2>1 DEF Requests, Ids
<1>3. rq[c].by \in Procs /\ proc[rq[c].by].pc = "serving"
  BY <1>1 DEF Inv, RequestOK
<1>4. proc' = proc /\ UNCHANGED <<meta, secrets, lock>>
  BY <1>3, NothingToInvalidate DEF CreateInsert
<1>5. projects' \in SUBSET Projects
  BY <1>2 DEF CreateInsert, Inv, TypeOK
<1>6. AllRowsDecrypt' /\ secrets' \in Tables
  BY <1>4, SameRows
<1>7. Code(500) \in Results /\ Code(201) \in Results
  BY ResultType
<1>8. PICK res \in Results : Finish(c, res)
  BY <1>7 DEF CreateInsert
<1> QED
  BY <1>1, <1>4, <1>5, <1>6, <1>8, FinishInv

\* A GET changes no table (handlers.rs, get_secrets).
LEMMA GetRowsInv ==
  ASSUME Inv, NEW c \in Slots, GetRows(c)
  PROVE  Inv'
<1> DEFINE name == rq[c].id[1]
           rows == {k \in SecretKeys : secrets[<<name, k>>] # None}
           map == [k \in SecretKeys |-> IF k \in rows
                                          THEN secrets[<<name, k>>].ct.plain
                                          ELSE None]
<1>1. rq[c].st \in InHandler /\ rq[c].op = "get"
  BY DEF GetRows, Handling, InHandler
<1>2. name \in Projects
  <2>1. [op |-> rq[c].op, id |-> rq[c].id, val |-> rq[c].val] \in Requests
    BY <1>1 DEF Inv, RequestOK, InHandler
  <2> QED
    BY <2>1 DEF Requests, Ids
<1>3. UNCHANGED <<meta, lock, proc, projects, secrets>>
  BY DEF GetRows, database
<1>4. AllRowsDecrypt' /\ secrets' \in Tables /\ projects' \in SUBSET Projects
  BY <1>3, SameRows DEF Inv, TypeOK
<1>5. map \in [SecretKeys -> Values \cup {None}]
  <2>1. ASSUME NEW k \in rows PROVE secrets[<<name, k>>].ct.plain \in Values
    <3>1. <<name, k>> \in Ids /\ secrets[<<name, k>>] # None
      BY <1>2, <2>1 DEF Ids
    <3> QED
      BY <3>1 DEF Inv, TypeOK, Tables, Rows, Ciphertexts
  <2> QED
    BY <2>1
<1> HIDE DEF map
<1>6. [Code(200) EXCEPT !.map = map] \in Results /\ Code(500) \in Results
  <2>1. Code(200) \in Results /\ Code(500) \in Results
    BY ResultType
  <2> QED
    BY <1>5, <2>1 DEF Results
<1>7. PICK res \in Results : Finish(c, res)
  BY <1>6 DEF GetRows, map
<1> QED
  BY <1>1, <1>3, <1>4, <1>7, FinishInv

\* The row a PUT has written is still there when its version is read: the mutex
\* is held across both statements (repo.rs, upsert_secret).
LEMMA PutVersionInv ==
  ASSUME Inv, NEW c \in Slots, PutVersion(c)
  PROVE  Inv'
<1>1. rq[c].st \in InHandler /\ rq[c].op = "put"
  BY DEF PutVersion, Handling, InHandler
<1>2. UNCHANGED <<meta, lock, proc, projects, secrets>>
  BY DEF PutVersion, database
<1>3. AllRowsDecrypt' /\ secrets' \in Tables /\ projects' \in SUBSET Projects
  BY <1>2, SameRows DEF Inv, TypeOK
<1>4. rq[c].id \in Ids
  <2>1. [op |-> rq[c].op, id |-> rq[c].id, val |-> rq[c].val] \in Requests
    BY <1>1 DEF Inv, RequestOK, InHandler
  <2> QED
    BY <1>1, <2>1 DEF Requests
<1>5. PICK res \in Results : Finish(c, res)
  <2>1. Code(200) \in Results /\ Code(500) \in Results
    BY ResultType
  <2>2. CASE secrets[rq[c].id] = None
    BY <2>1, <2>2 DEF PutVersion
  <2>3. CASE secrets[rq[c].id] # None
    <3>1. secrets[rq[c].id].ver \in Nat
      BY <1>4, <2>3 DEF Inv, TypeOK, Tables, Rows
    <3>2. [Code(200) EXCEPT !.ver = secrets[rq[c].id].ver] \in Results
      BY <2>1, <3>1 DEF Results
    <3> QED
      BY <2>3, <3>2 DEF PutVersion
  <2> QED
    BY <2>2, <2>3
<1> QED
  BY <1>1, <1>2, <1>3, <1>5, FinishInv

\* A handler that fails returns 500 and drops the mutex guard (error.rs).
LEMMA HandlerFailsInv ==
  ASSUME Inv, NEW c \in Slots, HandlerFails(c)
  PROVE  Inv'
<1>1. rq[c].st \in InHandler /\ Finish(c, Code(500)) /\ Code(500) \in Results
  BY ResultType DEF HandlerFails
<1>2. UNCHANGED <<meta, lock, proc, projects, secrets>>
  BY DEF HandlerFails, database
<1>3. AllRowsDecrypt' /\ secrets' \in Tables /\ projects' \in SUBSET Projects
  BY <1>2, SameRows DEF Inv, TypeOK
<1> QED
  BY <1>1, <1>2, <1>3, FinishInv

\* A DELETE removes a row that no handler is relying on (handlers.rs).
LEMMA DeleteRowInv ==
  ASSUME Inv, NEW c \in Slots, DeleteRow(c)
  PROVE  Inv'
<1>1. rq[c].st \in InHandler
  BY DEF DeleteRow, Handling, InHandler
<1>2. rq[c].by \in Procs /\ proc[rq[c].by].pc = "serving"
  BY <1>1 DEF Inv, RequestOK
<1>3. proc' = proc /\ UNCHANGED <<meta, projects, lock>>
  BY <1>2, NothingToInvalidate DEF DeleteRow
<1>4. secrets' = [secrets EXCEPT ![rq[c].id] = None]
  BY DEF DeleteRow
<1>5. secrets' \in Tables /\ projects' \in SUBSET Projects
  BY <1>3, <1>4 DEF Inv, TypeOK, Tables
<1>6. AllRowsDecrypt'
  <2>1. \A id \in Ids : secrets'[id] # None => secrets'[id] = secrets[id]
    BY <1>4 DEF Inv, TypeOK, Tables
  <2> QED
    BY <1>3, <2>1 DEF Inv, AllRowsDecrypt, Row, Opens
<1>7. Code(404) \in Results /\ Code(204) \in Results
  BY ResultType
<1>8. PICK res \in Results : Finish(c, res)
  BY <1>7 DEF DeleteRow
<1> QED
  BY <1>1, <1>3, <1>5, <1>6, <1>8, FinishInv

\* A PUT seals the value under the server's key, which is the current one.
LEMMA PutUpsertInv ==
  ASSUME Inv, NEW c \in Slots, PutUpsert(c)
  PROVE  Inv'
<1> DEFINE id == rq[c].id
           ct == encrypt(proc[rq[c].by].key, rq[c].val, id)
           row == [ct |-> ct, ver |-> IF secrets[id] = None THEN 1
                                                            ELSE secrets[id].ver + 1]
           r == [rq[c] EXCEPT !.st = "written"]
<1>1. rq[c].st = "looked" /\ rq[c].st \in InHandler /\ rq[c].op = "put"
  BY DEF PutUpsert, Handling, InHandler
<1>2. /\ rq[c].by \in Procs /\ proc[rq[c].by].pc = "serving" /\ Wanted(c)
      /\ [op |-> rq[c].op, id |-> id, val |-> rq[c].val] \in Requests
  BY <1>1 DEF Inv, RequestOK
<1>3. id \in Ids /\ rq[c].val \in Values
  BY <1>1, <1>2 DEF Requests
<1>4. id[1] \in projects
  BY <1>1, <1>2 DEF Wanted
<1>5. proc[rq[c].by].key = meta.verifier /\ proc[rq[c].by].key \in MasterKeys
  BY <1>2 DEF Inv, ProcOK, TypeOK, ProcStates
<1>6. proc' = proc /\ UNCHANGED <<meta, projects, lock>>
  BY <1>2, NothingToInvalidate DEF PutUpsert
<1>7. secrets' = [secrets EXCEPT ![id] = row]
  BY DEF PutUpsert, Upserted
<1>8. row \in Rows /\ row.ct = ct
  <2>1. secrets[id] # None => secrets[id].ver \in Nat
    BY <1>3 DEF Inv, TypeOK, Tables, Rows
  <2>2. ct \in Ciphertexts
    BY <1>3, <1>5 DEF encrypt, Ciphertexts
  <2> HIDE DEF ct
  <2> QED
    BY <2>1, <2>2 DEF Rows
<1>9. opens(meta.verifier, ct, id)
  BY <1>5 DEF opens, encrypt
<1> HIDE DEF row, ct
<1>10. secrets' \in Tables /\ projects' \in SUBSET Projects
  BY <1>3, <1>6, <1>7, <1>8 DEF Inv, TypeOK, Tables
<1>11. secrets'[id] = row /\ row # None
  BY <1>3, <1>7, <1>8, NoneAssumption DEF Inv, TypeOK, Tables
<1>12. AllRowsDecrypt'
  <2>1. ASSUME NEW i \in Ids, secrets'[i] # None
        PROVE  opens(meta.verifier, secrets'[i].ct, i)
    <3>1. CASE i = id
      BY <3>1, <1>8, <1>9, <1>11
    <3>2. CASE i # id
      <4>1. secrets'[i] = secrets[i]
        BY <3>2, <1>7 DEF Inv, TypeOK, Tables
      <4> QED
        BY <2>1, <4>1 DEF Inv, AllRowsDecrypt, Row, Opens
    <3> QED
      BY <3>1, <3>2
  <2> QED
    BY <1>6, <2>1 DEF AllRowsDecrypt, Row, Opens
<1>13. rq[c] \in RequestStates /\ rq \in [Slots -> RequestStates]
  BY DEF Inv, TypeOK
<1>14. rq' = [rq EXCEPT ![c] = r]
  BY <1>13 DEF PutUpsert
<1>15. /\ r \in RequestStates /\ r.st = "written" /\ r.by = rq[c].by
       /\ r.op = rq[c].op /\ r.id = id /\ r.val = rq[c].val
  BY <1>13 DEF RequestStates, InHandler
<1> HIDE DEF r
<1>16. rq'[c] = r
  BY <1>13, <1>14
<1>17. [op |-> r.op, id |-> r.id, val |-> r.val] \in Requests
  BY <1>2, <1>15
<1>18. RequestOK(c)'
  BY <1>1, <1>2, <1>4, <1>6, <1>11, <1>15, <1>16, <1>17 DEF RequestOK, InHandler
<1> QED
  BY <1>1, <1>6, <1>10, <1>12, <1>14, <1>15, <1>18, RequestStep

-----------------------------------------------------------------------------
(***************************************************************************)
(* The theorems                                                            *)
(***************************************************************************)

\* Every step of Vault preserves the invariant.
LEMMA NextInv == Inv /\ [Next]_vars => Inv'
<1> SUFFICES ASSUME Inv, [Next]_vars PROVE Inv'
  OBVIOUS
<1>1. CASE Operator
  BY <1>1, ServeLockInv, RekeyLockInv, ServePassphraseInv, RekeyPassphrasesInv,
     NoPassphraseInv, ServeStopInv DEF Operator, Answer
<1>2. CASE Client
  BY <1>2, SendInv DEF Client
<1>3. CASE CliTokenCommit
  BY <1>3, CliTokenCommitInv
<1>4. ASSUME NEW p \in Procs, ServeStep(p) PROVE Inv'
  BY <1>4, ServeReadSaltInv, ServeVerifyInv, ServeBindInv, ServeInitializeInv
     DEF ServeStep
<1>5. ASSUME NEW p \in Procs, RekeyStep(p) PROVE Inv'
  BY <1>5, RekeyReadSaltInv, RekeySelectInv, RekeyVerifyInv, RekeyRowInv,
     RekeyCommitInv, RekeyAbortsInv DEF RekeyStep
<1>6. ASSUME NEW p \in Procs, Crash(p) PROVE Inv'
  BY <1>6, CrashInv
<1>7. ASSUME NEW c \in Slots, Handler(c) PROVE Inv'
  BY <1>7, CreateInsertInv, GetRowsInv, PutUpsertInv, PutVersionInv, DeleteRowInv
     DEF Handler
<1>8. ASSUME NEW c \in Slots, Unreachable(c) \/ HandlerFails(c) PROVE Inv'
  BY <1>8, UnreachableInv, HandlerFailsInv
<1>9. ASSUME NEW c \in Slots, NEW p \in Procs,
             Lookup(c, p) \/ LookupFails(c, p)
      PROVE  Inv'
  BY <1>9, LookupInv, LookupFailsInv
<1>10. CASE UNCHANGED vars
  BY <1>10 DEF vars, Inv, TypeOK, SaltMatchesVerifier, AllRowsDecrypt, Row, Opens,
     ProcOK, WorkRowOK, RequestOK, Wanted, MutexOK
<1> QED
  BY <1>1, <1>2, <1>3, <1>4, <1>5, <1>6, <1>7, <1>8, <1>9, <1>10 DEF Next

\* Inv holds in every reachable state.
THEOREM Invariance == Spec => []Inv
<1>1. Init => Inv
  BY InitInv
<1>2. Inv /\ [Next]_vars => Inv'
  BY NextInv
<1> QED
  BY <1>1, <1>2, PTL DEF Spec

\* The variables keep their types.
THEOREM TypeCorrect == Spec => []TypeOK
<1>1. Inv => TypeOK
  BY DEF Inv
<1> QED
  BY <1>1, Invariance, PTL

\* serve, rekey, their crashes and restarts never leave a secret that the
\* committed verifier's key does not open.
THEOREM NoSecretLost == Spec => []AllRowsDecrypt
<1>1. Inv => AllRowsDecrypt
  BY DEF Inv
<1> QED
  BY <1>1, Invariance, PTL

\* A live server never works under a superseded master key.
THEOREM KeyCurrent == Spec => []ServingKeyCurrent
<1>1. Inv => ServingKeyCurrent
  BY DEF Inv, ProcOK, ServingKeyCurrent
<1> QED
  BY <1>1, Invariance, PTL

\* The salt and the verifier are always of one key.
THEOREM MetaNeverTorn == Spec => []SaltMatchesVerifier
<1>1. Inv => SaltMatchesVerifier
  BY DEF Inv
<1> QED
  BY <1>1, Invariance, PTL

\* serve and rekey exclude each other.
THEOREM MutualExclusion == Spec => []OneOwner
<1>1. Inv => OneOwner
  BY OwnerUnique DEF OneOwner
<1> QED
  BY <1>1, Invariance, PTL

-----------------------------------------------------------------------------
(***************************************************************************)
(* Vault implements SecretStore, under the refinement mapping of           *)
(* VaultProps: a row stands for the value that it decrypts to, a request   *)
(* inside its handler for one that is still to take effect or, once its    *)
(* row is written, for one that has.                                       *)
(***************************************************************************)

\* Request r as clients see it, where ver is the version of its secret.
ViewOf(r, ver) ==
  [st  |-> CASE r.st = "looked" -> "sent"
             [] r.st = "written" -> "applied"
             [] OTHER -> r.st,
   op |-> r.op, id |-> r.id, val |-> r.val,
   res |-> IF r.st = "written" THEN [Code(200) EXCEPT !.ver = ver] ELSE r.res]

\* A view of a request that ends with answer res.
Ended(view, res) == [view EXCEPT !.st = "done", !.res = res]

\* The requests of the abstract store.
Views == [st : {"free", "sent", "applied", "done"}, op : Ops,
          id : Projects \X (SecretKeys \cup {None}) \cup {None},
          val : Values \cup {None}, res : Results]

\* The two modules agree on what they both define.
LEMMA SameDefinitions ==
  /\ Abs!Ids = Ids /\ Abs!Requests = Requests /\ Abs!NoResult = NoResult
  /\ \A n : Abs!Code(n) = Code(n)
BY DEF Abs!Ids, Ids, Abs!Requests, Requests, Abs!NoResult, NoResult, Abs!NoMap,
       NoMap, Abs!Code, Code

-----------------------------------------------------------------------------
(***************************************************************************)
(* What clients see of one state                                           *)
(***************************************************************************)

\* A request's view is made of its own record and its secret's version.
LEMMA RequestViewOf ==
  /\ RequestView = [c \in Slots |-> ViewOf(rq[c], Version(rq[c].id))]
  /\ RequestView' = [c \in Slots |-> ViewOf(rq'[c], Version(rq[c].id)')]
BY DEF RequestView, ViewOf

\* What a view shows of a record.
LEMMA ViewFields ==
  ASSUME NEW r, NEW ver
  PROVE  /\ ViewOf(r, ver).op = r.op /\ ViewOf(r, ver).id = r.id
         /\ ViewOf(r, ver).val = r.val
         /\ r.st \in {"sent", "looked"} => ViewOf(r, ver).st = "sent"
         /\ r.st = "written" => ViewOf(r, ver).st = "applied"
         /\ r.st \notin InHandler => ViewOf(r, ver).st = r.st
         /\ r.st # "written" => ViewOf(r, ver).res = r.res
BY DEF ViewOf, InHandler

\* A view is a request of the abstract store.
LEMMA ViewType ==
  ASSUME NEW r \in RequestStates, NEW ver, r.st = "written" => ver \in Nat
  PROVE  ViewOf(r, ver) \in Views
<1>1. r.res \in Results BY DEF RequestStates
<1>2. ASSUME ver \in Nat PROVE [Code(200) EXCEPT !.ver = ver] \in Results
  BY <1>2, ResultType DEF Results
<1>3. (IF r.st = "written" THEN [Code(200) EXCEPT !.ver = ver] ELSE r.res)
        \in Results
  BY <1>1, <1>2
<1>4. ViewOf(r, ver).st \in {"free", "sent", "applied", "done"}
  BY DEF ViewOf, RequestStates, InHandler
<1>5. /\ r.op \in Ops /\ r.id \in Projects \X (SecretKeys \cup {None}) \cup {None}
      /\ r.val \in Values \cup {None}
  BY DEF RequestStates
<1> QED BY <1>3, <1>4, <1>5 DEF ViewOf, Views

\* What the view of a record becomes when the request ends.
LEMMA ViewEnds ==
  ASSUME NEW q \in RequestStates, NEW v, q.st = "written" => v \in Nat,
         NEW r \in RequestStates, NEW w, r.st = "done",
         r.op = q.op, r.id = q.id, r.val = q.val
  PROVE  ViewOf(r, w) = Ended(ViewOf(q, v), r.res)
<1>1. ViewOf(r, w) \in Views /\ ViewOf(q, v) \in Views BY ViewType
<1>2. /\ ViewOf(r, w).st = "done" /\ ViewOf(r, w).res = r.res
      /\ ViewOf(r, w).op = ViewOf(q, v).op /\ ViewOf(r, w).id = ViewOf(q, v).id
      /\ ViewOf(r, w).val = ViewOf(q, v).val
  BY ViewFields DEF InHandler
<1>3. PICK a, b : a = ViewOf(r, w) /\ b = ViewOf(q, v) OBVIOUS
<1>4. a = [b EXCEPT !.st = "done", !.res = r.res]
  BY <1>1, <1>2, <1>3 DEF Views
<1>5. a = Ended(b, r.res) BY <1>4 DEF Ended
<1> QED BY <1>3, <1>5

\* A view of a write that is applied and will report version ver.
Applied(view, ver) ==
  [view EXCEPT !.st = "applied", !.res = [Code(200) EXCEPT !.ver = ver]]

\* What the view of a record becomes when the row is written.
LEMMA ViewWritten ==
  ASSUME NEW q \in RequestStates, NEW v, q.st # "written",
         NEW r \in RequestStates, NEW w \in Nat, r.st = "written",
         r.op = q.op, r.id = q.id, r.val = q.val
  PROVE  ViewOf(r, w) = Applied(ViewOf(q, v), w)
<1>1. ViewOf(r, w) \in Views /\ ViewOf(q, v) \in Views BY ViewType
<1>2. ViewOf(r, w).res = [Code(200) EXCEPT !.ver = w] BY DEF ViewOf
<1>3. PICK a, b, res : /\ a = ViewOf(r, w) /\ b = ViewOf(q, v)
                       /\ res = [Code(200) EXCEPT !.ver = w]
  OBVIOUS
<1>4. /\ a.st = "applied" /\ a.res = res /\ a.op = b.op /\ a.id = b.id
      /\ a.val = b.val
  BY <1>2, <1>3, ViewFields
<1>5. a = [b EXCEPT !.st = "applied", !.res = res]
  <2>1. a \in Views /\ b \in Views BY <1>1, <1>3
  <2> QED BY <1>4, <2>1 DEF Views
<1>6. a = Applied(b, w) BY <1>3, <1>5 DEF Applied
<1> QED BY <1>3, <1>6

\* A committed row is seen as the value it was encrypted from, because the
\* current key opens it.
LEMMA RowView ==
  ASSUME Inv, NEW id \in Ids
  PROVE  StoreView[id] = IF secrets[id] = None THEN None
                         ELSE [val |-> secrets[id].ct.plain,
                               ver |-> secrets[id].ver]
BY DEF Inv, AllRowsDecrypt, StoreView, Row

\* And so it is after a step.
LEMMA RowViewNext ==
  ASSUME Inv', NEW id \in Ids
  PROVE  StoreView'[id] = IF secrets'[id] = None THEN None
                          ELSE [val |-> secrets'[id].ct.plain,
                                ver |-> secrets'[id].ver]
BY DEF Inv, AllRowsDecrypt, StoreView, Row

\* Such a value is not None.
LEMMA RowSeen ==
  ASSUME Inv, NEW id \in Ids, secrets[id] # None
  PROVE  StoreView[id] # None
<1>1. secrets[id] \in Rows BY DEF Inv, TypeOK, Tables
<1>2. secrets[id].ct.plain \in Values /\ secrets[id].ver \in Nat
  BY <1>1 DEF Rows, Ciphertexts
<1>3. [val |-> secrets[id].ct.plain, ver |-> secrets[id].ver] \in Entries
  BY <1>2 DEF Entries
<1> QED BY <1>3, RowView, NoneIsNoEntry

\* The version that a write reports is the one of a secret.
LEMMA WrittenId ==
  ASSUME Inv, NEW c \in Slots, rq[c].st = "written"
  PROVE  rq[c].id \in Ids
BY DEF Inv, RequestOK, Requests, Ids

\* And that version is a number.
LEMMA WrittenVersion ==
  ASSUME Inv, NEW c \in Slots, rq[c].st = "written"
  PROVE  Version(rq[c].id) \in Nat
<1>1. rq[c].id \in Ids BY WrittenId
<1>2. secrets[rq[c].id] \in Rows \cup {None} BY <1>1 DEF Inv, TypeOK, Tables
<1> QED BY <1>2 DEF Version, Rows

-----------------------------------------------------------------------------
(***************************************************************************)
(* Steps that clients cannot see                                           *)
(***************************************************************************)

\* The rows hold the same values and versions as before.
SameSecrets ==
  \A id \in Ids :
    /\ secrets'[id] = None <=> secrets[id] = None
    /\ secrets[id] # None => /\ secrets'[id].ct.plain = secrets[id].ct.plain
                             /\ secrets'[id].ver = secrets[id].ver

\* If so, and the projects and requests stay, nothing changed for clients.
LEMMA Invisible ==
  ASSUME Inv, Inv', SameSecrets, UNCHANGED <<projects, rq>>
  PROVE  UNCHANGED Abs!vars
<1>1. \A id \in Ids : StoreView'[id] = StoreView[id]
  BY RowView, RowViewNext DEF SameSecrets
<1>2. StoreView' = StoreView
  BY <1>1 DEF StoreView
<1>3. \A id \in Ids : Version(id)' = Version(id)
  BY DEF Version, SameSecrets
<1>4. ASSUME NEW c \in Slots
      PROVE  ViewOf(rq'[c], Version(rq[c].id)') = ViewOf(rq[c], Version(rq[c].id))
  <2>1. CASE rq[c].st = "written" BY <1>3, <2>1, WrittenId
  <2>2. CASE rq[c].st # "written" BY <2>2 DEF ViewOf
  <2> QED BY <2>1, <2>2
<1>5. RequestView' = RequestView BY <1>4, RequestViewOf
<1> QED BY <1>2, <1>5 DEF Abs!vars

-----------------------------------------------------------------------------
(***************************************************************************)
(* Steps of one request                                                    *)
(***************************************************************************)

\* Only the view of the request that moves changes: a write elsewhere, whose
\* version the step could change, would be a second handler.
LEMMA OneViewMoves ==
  ASSUME Inv, NEW c \in Slots, NEW r, rq' = [rq EXCEPT ![c] = r],
         UNCHANGED secrets \/ rq[c].st \in InHandler
  PROVE  RequestView' = [RequestView EXCEPT ![c] = ViewOf(r, Version(r.id)')]
<1>1. rq \in [Slots -> RequestStates] BY DEF Inv, TypeOK
<1>2. ASSUME NEW d \in Slots, d # c
      PROVE  ViewOf(rq'[d], Version(rq[d].id)') = ViewOf(rq[d], Version(rq[d].id))
  <2>1. rq'[d] = rq[d] BY <1>1, <1>2
  <2>2. CASE rq[d].st = "written"
    <3>1. UNCHANGED secrets BY <1>2, <2>2, OneHandler DEF InHandler
    <3>2. Version(rq[d].id)' = Version(rq[d].id) BY <2>1, <3>1 DEF Version
    <3> QED BY <2>1, <3>2
  <2>3. CASE rq[d].st # "written" BY <2>1, <2>3 DEF ViewOf
  <2> QED BY <2>2, <2>3
<1>3. rq'[c] = r BY <1>1
<1>4. Version(rq[c].id)' = Version(r.id)' BY <1>3 DEF Version
<1> QED BY <1>2, <1>3, <1>4, RequestViewOf

\* A request that ends with answer res is answered res.
LEMMA EndView ==
  ASSUME Inv, NEW c \in Slots, NEW res \in Results, NEW by \in Procs \cup {None},
         rq' = [rq EXCEPT ![c] = [rq[c] EXCEPT !.st = "done", !.by = by,
                                               !.res = res]],
         UNCHANGED secrets \/ rq[c].st \in InHandler
  PROVE  Abs!Answer(c, res)
<1>1. rq[c] \in RequestStates BY DEF Inv, TypeOK
<1>2. PICK r : /\ rq' = [rq EXCEPT ![c] = r] /\ r \in RequestStates
               /\ r.st = "done" /\ r.res = res /\ r.op = rq[c].op
               /\ r.id = rq[c].id /\ r.val = rq[c].val
  <2> DEFINE r == [rq[c] EXCEPT !.st = "done", !.by = by, !.res = res]
  <2>1. /\ r.st = "done" /\ r.res = res /\ r.op = rq[c].op
        /\ r.id = rq[c].id /\ r.val = rq[c].val
    BY <1>1 DEF RequestStates
  <2>2. rq' = [rq EXCEPT ![c] = r] OBVIOUS
  <2>3. r \in RequestStates BY <1>1 DEF RequestStates
  <2> HIDE DEF r
  <2> QED BY <2>1, <2>2, <2>3
<1>3. RequestView' = [RequestView EXCEPT ![c] = ViewOf(r, Version(r.id)')]
  BY <1>2, OneViewMoves
<1>4. ViewOf(r, Version(r.id)') = Ended(RequestView[c], res)
  <2>1. RequestView[c] = ViewOf(rq[c], Version(rq[c].id)) BY RequestViewOf
  <2> QED BY <1>1, <1>2, <2>1, ViewEnds, WrittenVersion
<1> QED BY <1>3, <1>4 DEF Abs!Answer, Ended

\* A request refused or lost before it has the mutex, and one whose handler
\* returns res, is answered res.
LEMMA AnswerView ==
  ASSUME Inv, NEW c \in Slots, NEW res \in Results,
         rq' = Answered(c, res) \/ Finish(c, res),
         UNCHANGED secrets \/ rq[c].st \in InHandler
  PROVE  Abs!Answer(c, res)
<1>1. rq[c] \in RequestStates /\ rq \in [Slots -> RequestStates]
  BY DEF Inv, TypeOK
<1>2. \E by \in Procs \cup {None} :
        rq' = [rq EXCEPT ![c] = [rq[c] EXCEPT !.st = "done", !.by = by,
                                              !.res = res]]
  <2>1. CASE rq' = Answered(c, res)
    <3>1. rq' = [rq EXCEPT ![c] = [rq[c] EXCEPT !.st = "done", !.by = rq[c].by,
                                                !.res = res]]
      BY <1>1, <2>1 DEF Answered, RequestStates
    <3>2. rq[c].by \in Procs \cup {None} BY <1>1 DEF RequestStates
    <3> QED BY <3>1, <3>2
  <2>2. CASE Finish(c, res)
    <3>1. rq' = [rq EXCEPT ![c] = [rq[c] EXCEPT !.st = "done", !.by = None,
                                                !.res = res]]
      BY <1>1, <2>2 DEF Finish, RequestStates
    <3> QED BY <3>1
  <2> QED BY <2>1, <2>2
<1> QED BY <1>2, EndView

\* The view of request c before the step.
LEMMA ViewBefore ==
  ASSUME NEW c \in Slots
  PROVE  /\ RequestView[c].op = rq[c].op /\ RequestView[c].id = rq[c].id
         /\ RequestView[c].val = rq[c].val
         /\ rq[c].st \in {"sent", "looked"} => RequestView[c].st = "sent"
         /\ rq[c].st = "written" => RequestView[c].st = "applied"
         /\ rq[c].st \notin InHandler => RequestView[c].st = rq[c].st
         /\ rq[c].st # "written" => RequestView[c].res = rq[c].res
BY RequestViewOf, ViewFields

\* Nothing of the store moves when the tables do not.
LEMMA SameStore ==
  ASSUME UNCHANGED <<meta, secrets>>
  PROVE  StoreView' = StoreView
BY DEF StoreView, Row, Opens

-----------------------------------------------------------------------------
(***************************************************************************)
(* Handlers                                                                *)
(***************************************************************************)

\* A request is sent.
LEMMA SendSim ==
  ASSUME Inv, NEW c \in Slots, NEW q \in Requests, Send(c, q)
  PROVE  Abs!Next
<1>1. UNCHANGED <<meta, projects, secrets>> /\ rq[c].st \in {"free", "done"}
  BY DEF Send, database
<1>2. PICK r : /\ rq' = [rq EXCEPT ![c] = r]
               /\ r = [st |-> "sent", op |-> q.op, id |-> q.id, val |-> q.val,
                       by |-> None, res |-> NoResult]
  BY DEF Send
<1>3. RequestView' = [RequestView EXCEPT ![c] = ViewOf(r, Version(r.id)')]
  BY <1>1, <1>2, OneViewMoves
<1>4. ViewOf(r, Version(r.id)') =
        [st |-> "sent", op |-> q.op, id |-> q.id, val |-> q.val, res |-> NoResult]
  BY <1>2 DEF ViewOf
<1>5. RequestView[c].st \in {"free", "done"}
  BY <1>1, ViewBefore DEF InHandler
<1>6. StoreView' = StoreView BY <1>1, SameStore
<1>7. Abs!Send(c, q)
  BY <1>1, <1>3, <1>4, <1>5, <1>6, SameDefinitions DEF Abs!Send
<1>8. q \in Abs!Requests BY SameDefinitions
<1> QED BY <1>7, <1>8 DEF Abs!Next

\* One request ends without a usable answer.
LEMMA AbandonOne ==
  ASSUME Inv, NEW c \in Slots, rq[c].st \in {"sent", "looked", "written"},
         NEW n \in {0, 500}, rq' = Answered(c, Code(n)) \/ Finish(c, Code(n)),
         UNCHANGED <<meta, projects, secrets>>
  PROVE  Abs!Next
<1>1. Abs!Answer(c, Code(n))
  <2>1. Code(n) \in Results BY ResultType
  <2>2. UNCHANGED secrets OBVIOUS
  <2> QED BY <2>1, <2>2, AnswerView
<1>2. StoreView' = StoreView BY SameStore
<1>3. RequestView[c].st \in {"sent", "applied"} BY ViewBefore
<1>4. RequestView' = [d \in Slots |-> IF d \in {c}
                        THEN [RequestView[d] EXCEPT !.st = "done", !.res = Code(n)]
                        ELSE RequestView[d]]
  BY <1>1, RequestViewOf DEF Abs!Answer
<1>5. Abs!Abandon({c}, n)
  BY <1>2, <1>3, <1>4, SameDefinitions DEF Abs!Abandon
<1> QED BY <1>5 DEF Abs!Next

\* No server, or a statement that fails.
LEMMA FailSim ==
  ASSUME Inv, NEW c \in Slots, NEW p,
         Unreachable(c) \/ LookupFails(c, p) \/ HandlerFails(c)
  PROVE  Abs!Next
<1>1. rq[c].st \in {"sent", "looked", "written"}
      /\ UNCHANGED <<meta, projects, secrets>>
  BY DEF Unreachable, LookupFails, HandlerFails, InHandler, database
<1>2. CASE Unreachable(c) BY <1>1, <1>2, AbandonOne DEF Unreachable
<1>3. CASE LookupFails(c, p) BY <1>1, <1>3, AbandonOne DEF LookupFails
<1>4. CASE HandlerFails(c) BY <1>1, <1>4, AbandonOne DEF HandlerFails
<1> QED BY <1>2, <1>3, <1>4

\* The lookup refuses the request, or is not seen.
LEMMA LookupSim ==
  ASSUME Inv, NEW c \in Slots, NEW p \in Procs, Lookup(c, p)
  PROVE  Abs!Next \/ UNCHANGED Abs!vars
<1>1. UNCHANGED <<meta, projects, secrets>> /\ rq[c].st = "sent"
      /\ rq \in [Slots -> RequestStates] /\ rq[c] \in RequestStates
  BY DEF Lookup, database, Inv, TypeOK
<1>2. StoreView' = StoreView BY <1>1, SameStore
<1>3. CASE Wanted(c)
  <2>1. PICK r : /\ rq' = [rq EXCEPT ![c] = r] /\ r.st = "looked"
                 /\ r.op = rq[c].op /\ r.id = rq[c].id /\ r.val = rq[c].val
                 /\ r.res = rq[c].res
    <3> DEFINE r == [rq[c] EXCEPT !.st = "looked", !.by = p]
    <3>1. rq' = [rq EXCEPT ![c] = r] BY <1>1, <1>3 DEF Lookup
    <3>2. /\ r.st = "looked" /\ r.op = rq[c].op /\ r.id = rq[c].id
          /\ r.val = rq[c].val /\ r.res = rq[c].res
      BY <1>1 DEF RequestStates
    <3> HIDE DEF r
    <3> QED BY <3>1, <3>2
  <2>2. RequestView' = [RequestView EXCEPT ![c] = ViewOf(r, Version(r.id)')]
    BY <1>1, <2>1, OneViewMoves
  <2>3. ViewOf(r, Version(r.id)') = RequestView[c]
    BY <1>1, <2>1, RequestViewOf DEF ViewOf
  <2>4. RequestView' = RequestView BY <2>2, <2>3, RequestViewOf
  <2> QED BY <1>1, <1>2, <2>4 DEF Abs!vars
<1>4. CASE ~Wanted(c)
  <2>1. rq' = Answered(c, Code(IF rq[c].op = "create" THEN 409 ELSE 404))
    BY <1>4 DEF Lookup
  <2>2. Abs!Answer(c, Code(IF rq[c].op = "create" THEN 409 ELSE 404))
    <3>1. Code(IF rq[c].op = "create" THEN 409 ELSE 404) \in Results
      BY ResultType
    <3> QED BY <1>1, <2>1, <3>1, AnswerView
  <2>3. Abs!Refuse(c)
    BY <1>1, <1>2, <1>4, <2>2, ViewBefore, SameDefinitions
       DEF Abs!Refuse, Wanted
  <2> QED BY <2>3 DEF Abs!Next
<1> QED BY <1>3, <1>4

\* A project is created.
LEMMA CreateSim ==
  ASSUME Inv, NEW c \in Slots, CreateInsert(c)
  PROVE  Abs!Next
<1>1. /\ rq[c].st = "looked" /\ rq[c].op = "create" /\ UNCHANGED <<meta, secrets>>
      /\ projects' = projects \cup {rq[c].id[1]}
  BY DEF CreateInsert, Handling
<1>2. rq[c].id[1] \notin projects BY <1>1 DEF Inv, RequestOK, Wanted
<1>3. Finish(c, Code(201)) BY <1>2 DEF CreateInsert
<1>4. Abs!Answer(c, Code(201)) BY <1>1, <1>3, AnswerView, ResultType
<1>5. StoreView' = StoreView BY <1>1, SameStore
<1>6. Abs!Create(c)
  BY <1>1, <1>2, <1>4, <1>5, ViewBefore, SameDefinitions DEF Abs!Create
<1> QED BY <1>6 DEF Abs!Next

\* A row is deleted, or there was none.
LEMMA DeleteSim ==
  ASSUME Inv, Inv', NEW c \in Slots, DeleteRow(c)
  PROVE  Abs!Next
<1> DEFINE id == rq[c].id
<1>1. /\ rq[c].st = "looked" /\ rq[c].op = "delete" /\ UNCHANGED <<meta, projects>>
      /\ secrets' = [secrets EXCEPT ![id] = None]
  BY DEF DeleteRow, Handling
<1>2. id \in Ids /\ id[1] \in projects
  BY <1>1 DEF Inv, RequestOK, Wanted, Requests, Ids
<1>3. secrets \in [Ids -> Rows \cup {None}] BY DEF Inv, TypeOK, Tables
<1>4. StoreView[id] = None <=> secrets[id] = None
  BY <1>2, <1>3, RowView, RowSeen
<1>5. Abs!Answer(c, Code(IF StoreView[id] = None THEN 404 ELSE 204))
  <2>1. Finish(c, Code(IF secrets[id] = None THEN 404 ELSE 204))
    BY DEF DeleteRow
  <2>2. Code(IF secrets[id] = None THEN 404 ELSE 204) \in Results BY ResultType
  <2>3. rq[c].st \in InHandler BY <1>1 DEF InHandler
  <2> QED BY <1>4, <2>1, <2>2, <2>3, AnswerView
<1>6. StoreView' = [StoreView EXCEPT ![id] = None]
  <2>1. ASSUME NEW i \in Ids
        PROVE  StoreView'[i] = IF i = id THEN None ELSE StoreView[i]
    BY <1>1, <1>2, <1>3, RowView, RowViewNext
  <2> QED BY <2>1 DEF StoreView
<1>7. /\ RequestView[c].st = "sent" /\ RequestView[c].op = "delete"
      /\ RequestView[c].id = id
  BY <1>1, ViewBefore
<1>8. Abs!Answer(c, Abs!Code(IF StoreView[RequestView[c].id] = None
                               THEN 404 ELSE 204))
  BY <1>5, <1>7, SameDefinitions
<1>9. Abs!Delete(c) BY <1>1, <1>2, <1>6, <1>7, <1>8 DEF Abs!Delete
<1> QED BY <1>9 DEF Abs!Next

\* The secrets of a project are read: every row opens, so nothing is missing.
LEMMA GetSim ==
  ASSUME Inv, NEW c \in Slots, GetRows(c)
  PROVE  Abs!Next
<1> DEFINE name == rq[c].id[1]
           value(k) == IF StoreView[<<name, k>>] = None THEN None
                       ELSE StoreView[<<name, k>>].val
<1>1. /\ rq[c].st = "looked" /\ rq[c].op = "get"
      /\ UNCHANGED <<meta, projects, secrets>>
  BY DEF GetRows, Handling, database
<1>2. name \in projects /\ name \in Projects /\ rq[c].st \in InHandler
  <2>1. Wanted(c) BY <1>1 DEF Inv, RequestOK
  <2>2. rq[c].op # "create" BY <1>1
  <2>3. name \in projects BY <2>1, <2>2 DEF Wanted
  <2>4. projects \subseteq Projects BY DEF Inv, TypeOK
  <2> QED BY <1>1, <2>3, <2>4 DEF InHandler
<1>3. \A k \in SecretKeys : <<name, k>> \in Ids BY <1>2 DEF Ids
<1>4. proc[rq[c].by].key = meta.verifier
  BY <1>2 DEF Inv, RequestOK, ProcOK
<1>5. \A k \in SecretKeys : secrets[<<name, k>>] # None =>
        opens(proc[rq[c].by].key, secrets[<<name, k>>].ct, <<name, k>>)
  BY <1>3, <1>4 DEF Inv, AllRowsDecrypt, Row, Opens
<1>6. PICK m : m = [k \in SecretKeys |->
                      IF secrets[<<name, k>>] # None
                        THEN secrets[<<name, k>>].ct.plain ELSE None]
  OBVIOUS
<1>7. Finish(c, [Code(200) EXCEPT !.map = m])
  BY <1>5, <1>6 DEF GetRows
<1>8. m = [k \in SecretKeys |-> value(k)]
  <2>1. ASSUME NEW k \in SecretKeys
        PROVE  value(k) = IF secrets[<<name, k>>] # None
                            THEN secrets[<<name, k>>].ct.plain ELSE None
    <3>1. <<name, k>> \in Ids BY <1>3
    <3>2. CASE secrets[<<name, k>>] = None BY <3>1, <3>2, RowView
    <3>3. CASE secrets[<<name, k>>] # None
      <4>1. StoreView[<<name, k>>] # None BY <3>1, <3>3, RowSeen
      <4>2. StoreView[<<name, k>>] = [val |-> secrets[<<name, k>>].ct.plain,
                                      ver |-> secrets[<<name, k>>].ver]
        BY <3>1, <3>3, RowView
      <4> QED BY <3>3, <4>1, <4>2
    <3> QED BY <3>2, <3>3
  <2> HIDE DEF value
  <2> QED BY <1>6, <2>1
<1>9. Abs!Answer(c, [Code(200) EXCEPT !.map = m])
  <2>1. m \in [SecretKeys -> Values \cup {None}]
    <3>1. \A k \in SecretKeys : secrets[<<name, k>>] \in Rows \cup {None}
      BY <1>3 DEF Inv, TypeOK, Tables
    <3> QED BY <1>6, <3>1 DEF Rows, Ciphertexts
  <2>2. [Code(200) EXCEPT !.map = m] \in Results
    BY <2>1, ResultType DEF Results
  <2> QED BY <1>2, <1>7, <2>2, AnswerView
<1>10. /\ RequestView[c].st = "sent" /\ RequestView[c].op = "get"
       /\ RequestView[c].id = rq[c].id
  BY <1>1, ViewBefore
<1>11. StoreView' = StoreView BY <1>1, SameStore
<1>12. Abs!Answer(c, [Abs!Code(200) EXCEPT !.map = [k \in SecretKeys |-> value(k)]])
  BY <1>8, <1>9, SameDefinitions
<1>13. Abs!Get(c) BY <1>1, <1>2, <1>10, <1>11, <1>12 DEF Abs!Get
<1> QED BY <1>13 DEF Abs!Next

\* A row is written, under the next version.
LEMMA PutSim ==
  ASSUME Inv, Inv', NEW c \in Slots, PutUpsert(c)
  PROVE  Abs!Next
<1>1. /\ rq[c].st = "looked" /\ rq[c].op = "put" /\ UNCHANGED <<meta, projects>>
      /\ rq \in [Slots -> RequestStates] /\ rq[c] \in RequestStates
      /\ secrets \in [Ids -> Rows \cup {None}]
  BY DEF PutUpsert, Handling, Inv, TypeOK, Tables
<1>2. rq[c].id \in Ids /\ rq[c].id[1] \in projects /\ rq[c].st \in InHandler
  BY <1>1 DEF Inv, RequestOK, Wanted, Requests, Ids, InHandler
<1>3. PICK id, val, ver : /\ id = rq[c].id /\ val = rq[c].val
                          /\ ver = IF secrets[id] = None THEN 1
                                                         ELSE secrets[id].ver + 1
  OBVIOUS
<1>4. PICK row : /\ secrets' = [secrets EXCEPT ![id] = row]
                 /\ row.ver = ver /\ row.ct.plain = val
  <2> DEFINE ct == encrypt(proc[rq[c].by].key, val, id)
  <2>1. ct.plain = val BY DEF encrypt
  <2> DEFINE row == [ct |-> ct, ver |-> ver]
  <2>2. secrets' = [secrets EXCEPT ![id] = row]
    BY <1>3 DEF PutUpsert, Upserted
  <2>3. row.ver = ver /\ row.ct.plain = val BY <2>1
  <2> HIDE DEF row
  <2> QED BY <2>2, <2>3
<1>5. ver \in Nat /\ id \in Ids BY <1>1, <1>2, <1>3 DEF Rows
<1>6. secrets'[id] = row /\ secrets'[id] # None
  <2>1. secrets'[id] = row BY <1>1, <1>4, <1>5
  <2>2. rq'[c].st = "written" /\ rq'[c].id = id
    BY <1>1, <1>3 DEF PutUpsert, RequestStates
  <2> QED BY <2>1, <2>2 DEF Inv, RequestOK
<1>7. StoreView' = [StoreView EXCEPT ![id] = [val |-> val, ver |-> ver]]
  <2>1. ASSUME NEW i \in Ids
        PROVE  StoreView'[i] = IF i = id THEN [val |-> val, ver |-> ver]
                                         ELSE StoreView[i]
    <3>1. CASE i = id BY <1>4, <1>6, <3>1, RowViewNext
    <3>2. CASE i # id BY <1>1, <1>4, <3>2, RowView, RowViewNext
    <3> QED BY <3>1, <3>2
  <2> QED BY <1>5, <2>1 DEF StoreView
<1>8. ver = IF StoreView[id] = None THEN 1 ELSE StoreView[id].ver + 1
  <2>1. CASE secrets[id] = None BY <1>3, <1>5, <2>1, RowView
  <2>2. CASE secrets[id] # None
    <3>1. StoreView[id] # None BY <1>5, <2>2, RowSeen
    <3>2. StoreView[id] = [val |-> secrets[id].ct.plain, ver |-> secrets[id].ver]
      BY <1>5, <2>2, RowView
    <3> QED BY <1>3, <2>2, <3>1, <3>2
  <2> QED BY <2>1, <2>2
<1>9. PICK r : /\ rq' = [rq EXCEPT ![c] = r] /\ r \in RequestStates
               /\ r.st = "written" /\ r.op = rq[c].op /\ r.id = rq[c].id
               /\ r.val = rq[c].val
  <2> DEFINE r == [rq[c] EXCEPT !.st = "written"]
  <2>1. rq' = [rq EXCEPT ![c] = r] BY DEF PutUpsert
  <2>2. /\ r \in RequestStates
        /\ r.st = "written" /\ r.op = rq[c].op /\ r.id = rq[c].id
        /\ r.val = rq[c].val
    BY <1>1 DEF RequestStates, InHandler
  <2> HIDE DEF r
  <2> QED BY <2>1, <2>2
<1>10. RequestView' = [RequestView EXCEPT ![c] = Applied(RequestView[c], ver)]
  <2>1. RequestView' = [RequestView EXCEPT ![c] = ViewOf(r, Version(r.id)')]
    BY <1>2, <1>9, OneViewMoves
  <2>2. Version(r.id)' = ver BY <1>3, <1>4, <1>6, <1>9 DEF Version
  <2>3. RequestView[c] = ViewOf(rq[c], Version(rq[c].id)) BY RequestViewOf
  <2>4. ViewOf(r, ver) = Applied(RequestView[c], ver)
    BY <1>1, <1>5, <1>9, <2>3, ViewWritten
  <2> QED BY <2>1, <2>2, <2>4
<1>11. /\ RequestView[c].st = "sent" /\ RequestView[c].op = "put"
       /\ RequestView[c].id = id /\ RequestView[c].val = val
  BY <1>1, <1>3, ViewBefore
<1>12. RequestView' = [RequestView EXCEPT
                         ![c].st = "applied",
                         ![c].res = [Abs!Code(200) EXCEPT !.ver = ver]]
  BY <1>10, SameDefinitions DEF Applied
<1>13. Abs!Put(c)
  BY <1>1, <1>2, <1>3, <1>7, <1>8, <1>11, <1>12 DEF Abs!Put
<1> QED BY <1>13 DEF Abs!Next

\* The version is read back: it is the one of the write, which is still there.
LEMMA ReplySim ==
  ASSUME Inv, NEW c \in Slots, PutVersion(c)
  PROVE  Abs!Next
<1>1. /\ rq[c].st = "written" /\ UNCHANGED <<meta, projects, secrets>>
      /\ rq[c].st \in InHandler /\ rq[c] \in RequestStates
  BY DEF PutVersion, Handling, database, InHandler, Inv, TypeOK
<1>2. secrets[rq[c].id] # None /\ Version(rq[c].id) \in Nat
  BY <1>1, WrittenVersion DEF Inv, RequestOK
<1>3. PICK res : res = [Code(200) EXCEPT !.ver = Version(rq[c].id)] OBVIOUS
<1>4. Finish(c, res) /\ res \in Results
  <2>1. res \in Results BY <1>2, <1>3, ResultType DEF Results
  <2>2. Finish(c, res) BY <1>2, <1>3 DEF PutVersion, Version
  <2> QED BY <2>1, <2>2
<1>5. RequestView' = [RequestView EXCEPT ![c].st = "done", ![c].res = res]
  BY <1>1, <1>4, AnswerView DEF Abs!Answer
<1>6. RequestView[c] \in Views /\ RequestView[c].res = res
  <2>1. RequestView[c] = ViewOf(rq[c], Version(rq[c].id)) BY RequestViewOf
  <2>2. ViewOf(rq[c], Version(rq[c].id)) \in Views BY <1>1, <1>2, ViewType
  <2>3. ViewOf(rq[c], Version(rq[c].id)).res = res BY <1>1, <1>3 DEF ViewOf
  <2> QED BY <2>1, <2>2, <2>3
<1>7. [RequestView[c] EXCEPT !.st = "done", !.res = res] =
        [RequestView[c] EXCEPT !.st = "done"]
  BY <1>6 DEF Views
<1>8. RequestView' = [RequestView EXCEPT ![c].st = "done"] BY <1>5, <1>7
<1>9. Abs!Reply(c)
  BY <1>1, <1>8, ViewBefore, SameStore DEF Abs!Reply
<1> QED BY <1>9 DEF Abs!Next

-----------------------------------------------------------------------------
(***************************************************************************)
(* Processes                                                               *)
(***************************************************************************)

\* The requests of a process that dies end without an answer, applied or not.
LEMMA CrashSim ==
  ASSUME Inv, NEW p \in Procs, Crash(p)
  PROVE  Abs!Next
<1> DEFINE Lost(c) == rq[c].st \in InHandler /\ rq[c].by = p
<1>1. /\ UNCHANGED <<meta, projects, secrets>>
      /\ rq' = [c \in Slots |-> IF Lost(c) THEN [rq[c] EXCEPT !.st = "done",
                                                             !.by = None,
                                                             !.res = Code(0)]
                                           ELSE rq[c]]
  BY DEF Crash, database
<1>2. PICK S \in SUBSET Slots : S = {c \in Slots : Lost(c)} OBVIOUS
<1>3. \A c \in S : RequestView[c].st \in {"sent", "applied"}
  BY <1>2, ViewBefore DEF InHandler
<1>4. ASSUME NEW c \in Slots
      PROVE  ViewOf(rq'[c], Version(rq[c].id)') =
               IF c \in S THEN Ended(RequestView[c], Code(0)) ELSE RequestView[c]
  <2>1. /\ RequestView[c] = ViewOf(rq[c], Version(rq[c].id))
        /\ rq[c] \in RequestStates
    BY RequestViewOf DEF Inv, TypeOK
  <2>2. CASE c \in S
    <3>1. PICK r : /\ rq'[c] = r /\ r \in RequestStates
                   /\ r.st = "done" /\ r.op = rq[c].op /\ r.id = rq[c].id
                   /\ r.val = rq[c].val /\ r.res = Code(0)
      <4> DEFINE r == [rq[c] EXCEPT !.st = "done", !.by = None, !.res = Code(0)]
      <4>1. rq'[c] = r BY <1>1, <1>2, <2>2
      <4>2. Code(0) \in Results BY ResultType
      <4>3. /\ r \in RequestStates
            /\ r.st = "done" /\ r.op = rq[c].op /\ r.id = rq[c].id
            /\ r.val = rq[c].val /\ r.res = Code(0)
        BY <2>1, <4>2 DEF RequestStates
      <4> HIDE DEF r
      <4> QED BY <4>1, <4>3
    <3>2. ViewOf(r, Version(rq[c].id)') = Ended(RequestView[c], Code(0))
      BY <2>1, <3>1, ViewEnds, WrittenVersion
    <3> QED BY <2>2, <3>1, <3>2
  <2>3. CASE c \notin S
    <3>1. rq'[c] = rq[c] BY <1>1, <1>2, <2>3
    <3>2. UNCHANGED secrets BY <1>1
    <3>3. Version(rq[c].id)' = Version(rq[c].id) BY <3>1, <3>2 DEF Version
    <3> QED BY <2>1, <2>3, <3>1, <3>3
  <2> QED BY <2>2, <2>3
<1>5. RequestView' = [c \in Slots |-> IF c \in S
                        THEN Ended(RequestView[c], Code(0)) ELSE RequestView[c]]
  BY <1>4, RequestViewOf
<1>6. RequestView' = [c \in Slots |-> IF c \in S
                        THEN [RequestView[c] EXCEPT !.st = "done",
                                                    !.res = Abs!Code(0)]
                        ELSE RequestView[c]]
  BY <1>5, SameDefinitions DEF Ended
<1>7. Abs!Abandon(S, 0) BY <1>1, <1>3, <1>6, SameStore DEF Abs!Abandon
<1> QED BY <1>7 DEF Abs!Next

\* A rekey commits the same values and versions under the new key.
LEMMA RekeyCommitSim ==
  ASSUME Inv, Inv', NEW p \in Procs, RekeyCommit(p)
  PROVE  UNCHANGED Abs!vars
<1>1. /\ proc[p].pc \in {"snapshot", "rewriting"} /\ proc[p].todo = {}
      /\ secrets' = proc[p].work /\ UNCHANGED <<projects, rq>>
  BY DEF RekeyCommit, MayWrite
<1>2. \A id \in Ids : WorkRowOK(proc[p], id) BY <1>1 DEF Inv, ProcOK
<1>3. ASSUME NEW id \in Ids
      PROVE  /\ secrets'[id] = None <=> secrets[id] = None
             /\ secrets[id] # None =>
                  /\ secrets'[id].ct.plain = secrets[id].ct.plain
                  /\ secrets'[id].ver = secrets[id].ver
  <2>1. WorkRowOK(proc[p], id) /\ id \notin proc[p].todo BY <1>1, <1>2
  <2>2. secrets'[id] = None <=> secrets[id] = None
    BY <1>1, <2>1 DEF WorkRowOK
  <2>3. ASSUME secrets[id] # None
        PROVE  /\ secrets'[id].ct.plain = secrets[id].ct.plain
               /\ secrets'[id].ver = secrets[id].ver
    <3>1. /\ secrets'[id].ver = secrets[id].ver
          /\ secrets'[id].ct = encrypt(proc[p].nkey, secrets[id].ct.plain, id)
      BY <1>1, <2>1, <2>3 DEF WorkRowOK
    <3> QED BY <3>1 DEF encrypt
  <2> QED BY <2>2, <2>3
<1>4. SameSecrets BY <1>3 DEF SameSecrets
<1> QED BY <1>1, <1>4, Invisible

\* The other steps of the processes, of the operator and of the token commands
\* touch neither rows nor requests.
LEMMA ProcessSim ==
  ASSUME Inv, Inv', NEW p \in Procs,
         Operator \/ CliTokenCommit \/ ServeStep(p) \/ RekeyStep(p)
  PROVE  UNCHANGED Abs!vars
<1>1. ASSUME UNCHANGED <<projects, secrets, rq>> PROVE UNCHANGED Abs!vars
  BY <1>1, Invisible DEF SameSecrets
<1>2. CASE Operator
  BY <1>1, <1>2
     DEF Operator, ServeLock, RekeyLock, Answer, ServePassphrase, RekeyPassphrases,
         NoPassphrase, ServeStop, database
<1>3. CASE CliTokenCommit BY <1>1, <1>3 DEF CliTokenCommit, database
<1>4. CASE ServeStep(p)
  BY <1>1, <1>4
     DEF ServeStep, ServeReadSalt, ServeVerify, ServeBind, ServeInitialize, database
<1>5. CASE RekeyStep(p)
  BY <1>1, <1>5, RekeyCommitSim
     DEF RekeyStep, RekeyReadSalt, RekeySelect, RekeyVerify, RekeyRow,
         RekeyAborts, database
<1> QED BY <1>2, <1>3, <1>4, <1>5

-----------------------------------------------------------------------------
(***************************************************************************)
(* The theorem                                                             *)
(***************************************************************************)

\* The first state shows an empty store and free slots.
LEMMA InitSim == Init => Abs!Init
<1> SUFFICES ASSUME Init PROVE Abs!Init OBVIOUS
<1>1. StoreView = [id \in Ids |-> None]
  BY DEF Init, StoreView, Row, EmptyTable
<1>2. RequestView = [c \in Slots |-> Abs!FreeSlot]
  <2>1. ASSUME NEW c \in Slots PROVE ViewOf(rq[c], Version(rq[c].id)) = Abs!FreeSlot
    <3>1. /\ rq[c].st = "free" /\ rq[c].op = "get" /\ rq[c].id = None
          /\ rq[c].val = None /\ rq[c].res = NoResult
      BY DEF Init, FreeSlot
    <3> QED BY <3>1, SameDefinitions DEF ViewOf, Abs!FreeSlot
  <2> QED BY <2>1, RequestViewOf
<1> QED BY <1>1, <1>2, SameDefinitions DEF Abs!Init, Init

\* Every step is a step of the abstract store, or is not seen there.
LEMMA NextSim ==
  ASSUME Inv, [Next]_vars
  PROVE  [Abs!Next]_(Abs!vars)
<1>1. Inv' BY NextInv
<1>2. CASE Operator \/ CliTokenCommit
  <2>1. CASE Procs = {}
    BY <1>2, <2>1 DEF Operator, CliTokenCommit
  <2>2. CASE Procs # {} BY <1>1, <1>2, <2>2, ProcessSim
  <2> QED BY <2>1, <2>2
<1>3. CASE Client BY <1>3, SendSim DEF Client
<1>4. ASSUME NEW p \in Procs, ServeStep(p) \/ RekeyStep(p) \/ Crash(p)
      PROVE  [Abs!Next]_(Abs!vars)
  BY <1>1, <1>4, ProcessSim, CrashSim
<1>5. ASSUME NEW c \in Slots, Handler(c) PROVE [Abs!Next]_(Abs!vars)
  BY <1>1, <1>5, CreateSim, GetSim, PutSim, ReplySim, DeleteSim DEF Handler
<1>6. ASSUME NEW c \in Slots, Unreachable(c) \/ HandlerFails(c)
      PROVE  [Abs!Next]_(Abs!vars)
  BY <1>6, FailSim
<1>7. ASSUME NEW c \in Slots, NEW p \in Procs, Lookup(c, p) \/ LookupFails(c, p)
      PROVE  [Abs!Next]_(Abs!vars)
  BY <1>7, LookupSim, FailSim
<1>8. CASE UNCHANGED vars
  BY <1>1, <1>8, Invisible DEF vars, SameSecrets
<1> QED BY <1>2, <1>3, <1>4, <1>5, <1>6, <1>7, <1>8 DEF Next

\* Requests are linearizable, and rekeying, restarting and crashing are
\* invisible to clients, for any number of processes, requests, projects and
\* secrets (handlers.rs, crypto_state.rs, lock.rs).
THEOREM Refinement == Spec => ImplementsStore
<1>1. Init => Abs!Init BY InitSim
<1>2. Inv /\ [Next]_vars => [Abs!Next]_(Abs!vars) BY NextSim
<1> QED BY <1>1, <1>2, Invariance, PTL DEF Spec, ImplementsStore, Abs!Spec
=============================================================================
