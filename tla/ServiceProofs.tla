---------------------------- MODULE ServiceProofs ----------------------------
(***************************************************************************)
(* Proofs about the composed server (module Service).  What was proved of  *)
(* Vault and of Access is used here for its two halves.                    *)
(***************************************************************************)
EXTENDS Service, TLAPS

VP == INSTANCE VaultProofs WITH rq <- vrq
AP == INSTANCE AccessProofs WITH rq <- arq

-----------------------------------------------------------------------------
(***************************************************************************)
(* V and VP are two instances of the same definitions, and so are A and AP *)
(***************************************************************************)

\* The invariant of Vault is the same in both.
LEMMA SameStoreInv == V!Inv <=> VP!Inv
BY DEF V!Inv, VP!Inv, V!TypeOK, VP!TypeOK, V!SaltMatchesVerifier,
       VP!SaltMatchesVerifier, V!AllRowsDecrypt, VP!AllRowsDecrypt, V!Row, VP!Row,
       V!Opens, VP!Opens, V!opens, VP!opens, V!ProcOK, VP!ProcOK, V!WorkRowOK,
       VP!WorkRowOK, V!encrypt, VP!encrypt, V!RequestOK, VP!RequestOK, V!Wanted,
       VP!Wanted, V!MutexOK, VP!MutexOK, V!InHandler, VP!InHandler, V!Requests,
       VP!Requests, V!RequestStates, VP!RequestStates, V!Results, VP!Results,
       V!ProcStates, VP!ProcStates, V!ServePCs, VP!ServePCs, V!RekeyPCs,
       VP!RekeyPCs, V!Tables, VP!Tables, V!Rows, VP!Rows, V!Ciphertexts,
       VP!Ciphertexts, V!MasterKeys, VP!MasterKeys, V!Ids, VP!Ids, V!Ops, VP!Ops

\* Also after a step.
LEMMA SameStoreInvNext == V!Inv' <=> VP!Inv'
BY SameStoreInv, PTL

\* So are the operations of serve.
LEMMA SameServe ==
  ASSUME NEW p
  PROVE  /\ V!ServeLock(p) <=> VP!ServeLock(p)
         /\ \A pw : V!ServePassphrase(p, pw) <=> VP!ServePassphrase(p, pw)
         /\ V!NoPassphrase(p) <=> VP!NoPassphrase(p)
         /\ V!ServeStop(p) <=> VP!ServeStop(p)
         /\ V!ServeStep(p) <=> VP!ServeStep(p)
<1> USE DEF V!Exit, VP!Exit, V!Off, VP!Off, V!EmptyTable, VP!EmptyTable, V!Ids,
            VP!Ids, V!database, VP!database, V!Acquire, VP!Acquire
<1>1. V!ServeLock(p) <=> VP!ServeLock(p)
  BY DEF V!ServeLock, VP!ServeLock
<1>7. \A pw : V!ServePassphrase(p, pw) <=> VP!ServePassphrase(p, pw)
  BY DEF V!ServePassphrase, VP!ServePassphrase
<1>8. V!NoPassphrase(p) <=> VP!NoPassphrase(p)
  BY DEF V!NoPassphrase, VP!NoPassphrase
<1>2. V!ServeStop(p) <=> VP!ServeStop(p)
  BY DEF V!ServeStop, VP!ServeStop, V!MutexFree, VP!MutexFree, V!InHandler,
         VP!InHandler
<1>3. V!ServeReadSalt(p) <=> VP!ServeReadSalt(p)
  BY DEF V!ServeReadSalt, VP!ServeReadSalt
<1>4. V!ServeVerify(p) <=> VP!ServeVerify(p)
  BY DEF V!ServeVerify, VP!ServeVerify, V!Keyed, VP!Keyed, V!derive_key,
         VP!derive_key
<1>5. V!ServeBind(p) <=> VP!ServeBind(p)
  BY DEF V!ServeBind, VP!ServeBind
<1>6. \A s : V!ServeInitialize(p, s) <=> VP!ServeInitialize(p, s)
  BY DEF V!ServeInitialize, VP!ServeInitialize, V!Keyed, VP!Keyed, V!derive_key,
         VP!derive_key, V!CanWrite, VP!CanWrite, V!MetaFor, VP!MetaFor,
         V!Invalidate, VP!Invalidate
<1> QED BY <1>1, <1>2, <1>3, <1>4, <1>5, <1>6, <1>7, <1>8
           DEF V!ServeStep, VP!ServeStep

\* And those of rekey.
LEMMA SameRekey ==
  ASSUME NEW p
  PROVE  /\ V!RekeyLock(p) <=> VP!RekeyLock(p)
         /\ \A cur, new : V!RekeyPassphrases(p, cur, new)
                            <=> VP!RekeyPassphrases(p, cur, new)
         /\ V!RekeyStep(p) <=> VP!RekeyStep(p)
<1> USE DEF V!Exit, VP!Exit, V!Off, VP!Off, V!EmptyTable, VP!EmptyTable, V!Ids,
            VP!Ids, V!database, VP!database, V!Acquire, VP!Acquire, V!MayWrite,
            VP!MayWrite, V!CanWrite, VP!CanWrite, V!opens, VP!opens
<1>1. V!RekeyLock(p) <=> VP!RekeyLock(p)
  BY DEF V!RekeyLock, VP!RekeyLock
<1>8. \A cur, new : V!RekeyPassphrases(p, cur, new)
                      <=> VP!RekeyPassphrases(p, cur, new)
  BY DEF V!RekeyPassphrases, VP!RekeyPassphrases
<1>2. V!RekeyReadSalt(p) <=> VP!RekeyReadSalt(p)
  BY DEF V!RekeyReadSalt, VP!RekeyReadSalt
<1>3. V!RekeySelect(p) <=> VP!RekeySelect(p)
  BY DEF V!RekeySelect, VP!RekeySelect
<1>4. \A s : V!RekeyVerify(p, s) <=> VP!RekeyVerify(p, s)
  BY DEF V!RekeyVerify, VP!RekeyVerify, V!derive_key, VP!derive_key
<1>5. \A id : V!RekeyRow(p, id) <=> VP!RekeyRow(p, id)
  BY DEF V!RekeyRow, VP!RekeyRow, V!Rewritten, VP!Rewritten, V!encrypt, VP!encrypt
<1>6. V!RekeyCommit(p) <=> VP!RekeyCommit(p)
  BY DEF V!RekeyCommit, VP!RekeyCommit, V!MetaFor, VP!MetaFor, V!Invalidate,
         VP!Invalidate
<1>7. V!RekeyAborts(p) <=> VP!RekeyAborts(p)
  BY DEF V!RekeyAborts, VP!RekeyAborts
<1> QED BY <1>1, <1>2, <1>3, <1>4, <1>5, <1>6, <1>7, <1>8
           DEF V!RekeyStep, VP!RekeyStep

\* And those of requests.
LEMMA SameRequests ==
  ASSUME NEW c
  PROVE  /\ \A r : V!Send(c, r) <=> VP!Send(c, r)
         /\ V!Unreachable(c) <=> VP!Unreachable(c)
         /\ \A p : V!Lookup(c, p) <=> VP!Lookup(c, p)
         /\ \A p : V!LookupFails(c, p) <=> VP!LookupFails(c, p)
         /\ V!Handler(c) <=> VP!Handler(c)
         /\ V!HandlerFails(c) <=> VP!HandlerFails(c)
<1> USE DEF V!NoResult, VP!NoResult, V!NoMap, VP!NoMap, V!Code, VP!Code,
            V!database, VP!database, V!Answered, VP!Answered, V!Finish, VP!Finish,
            V!Handling, VP!Handling, V!CanWrite, VP!CanWrite, V!Invalidate,
            VP!Invalidate, V!InHandler, VP!InHandler, V!MutexFree, VP!MutexFree
<1>1. \A r : V!Send(c, r) <=> VP!Send(c, r)
  <2>1. \A id : V!PendingPuts(id) = VP!PendingPuts(id)
    BY DEF V!PendingPuts, VP!PendingPuts
  <2>2. \A S : V!Cardinality(S) = VP!Cardinality(S)
    BY DEF V!Cardinality, VP!Cardinality
  <2>3. \A id : V!Version(id) = VP!Version(id)
    BY DEF V!Version, VP!Version
  <2> QED BY <2>1, <2>2, <2>3 DEF V!Send, VP!Send
<1>2. V!Unreachable(c) <=> VP!Unreachable(c)
  BY DEF V!Unreachable, VP!Unreachable
<1>3. \A p : V!Lookup(c, p) <=> VP!Lookup(c, p)
  BY DEF V!Lookup, VP!Lookup, V!Wanted, VP!Wanted
<1>4. \A p : V!LookupFails(c, p) <=> VP!LookupFails(c, p)
  BY DEF V!LookupFails, VP!LookupFails
<1>5. V!CreateInsert(c) <=> VP!CreateInsert(c)
  BY DEF V!CreateInsert, VP!CreateInsert
<1>6. V!GetRows(c) <=> VP!GetRows(c)
  BY DEF V!GetRows, VP!GetRows, V!opens, VP!opens
<1>7. V!PutUpsert(c) <=> VP!PutUpsert(c)
  BY DEF V!PutUpsert, VP!PutUpsert, V!encrypt, VP!encrypt, V!Upserted, VP!Upserted
<1>8. V!PutVersion(c) <=> VP!PutVersion(c)
  BY DEF V!PutVersion, VP!PutVersion
<1>9. V!DeleteRow(c) <=> VP!DeleteRow(c)
  BY DEF V!DeleteRow, VP!DeleteRow
<1>10. V!HandlerFails(c) <=> VP!HandlerFails(c)
  BY DEF V!HandlerFails, VP!HandlerFails
<1> QED BY <1>1, <1>2, <1>3, <1>4, <1>5, <1>6, <1>7, <1>8, <1>9, <1>10
           DEF V!Handler, VP!Handler

\* And the commits of token commands.
LEMMA SameCommit == V!CliTokenCommit <=> VP!CliTokenCommit
BY DEF V!CliTokenCommit, VP!CliTokenCommit, V!Invalidate, VP!Invalidate,
       V!database, VP!database

\* And the whole of it.
LEMMA SameStoreNext == V!Next <=> VP!Next
<1>1. V!CliTokenCommit <=> VP!CliTokenCommit BY SameCommit
<1>2. \A p : V!Crash(p) <=> VP!Crash(p)
  BY DEF V!Crash, VP!Crash, V!Exit, VP!Exit, V!Off, VP!Off, V!EmptyTable,
         VP!EmptyTable, V!Ids, VP!Ids, V!InHandler, VP!InHandler, V!Code, VP!Code,
         V!NoResult, VP!NoResult, V!NoMap, VP!NoMap, V!database, VP!database
<1>3. V!Operator <=> VP!Operator
  BY SameServe, SameRekey DEF V!Operator, VP!Operator, V!Answer, VP!Answer
<1>4. V!Client <=> VP!Client
  BY SameRequests DEF V!Client, VP!Client, V!Requests, VP!Requests, V!Ids, VP!Ids
<1> QED BY <1>1, <1>2, <1>3, <1>4, SameServe, SameRekey, SameRequests
           DEF V!Next, VP!Next

\* The initial states of both modules are the same in both instances.
LEMMA SameInit == (V!Init <=> VP!Init) /\ (A!Init <=> AP!Init)
BY DEF V!Init, VP!Init, V!NoMeta, VP!NoMeta, V!EmptyTable, VP!EmptyTable, V!Ids,
       VP!Ids, V!Off, VP!Off, V!FreeSlot, VP!FreeSlot, V!NoResult, VP!NoResult,
       V!NoMap, VP!NoMap, A!Init, AP!Init, A!FreeSlot, AP!FreeSlot, A!Lost, AP!Lost

\* The steps of the token commands, of the middleware and of the extractor agree.
LEMMA SameMiddleware ==
  ASSUME NEW c
  PROVE  /\ A!Cli <=> AP!Cli
         /\ A!Tick <=> AP!Tick
         /\ A!Crash <=> AP!Crash
         /\ A!Arrive(c) <=> AP!Arrive(c)
         /\ A!ResolveName(c) <=> AP!ResolveName(c)
         /\ A!Authenticate(c) <=> AP!Authenticate(c)
         /\ A!HandleOpen(c) <=> AP!HandleOpen(c)
         /\ A!HangUp(c) <=> AP!HangUp(c)
         /\ A!Record(c) <=> AP!Record(c)
         /\ A!Reply(c) <=> AP!Reply(c)
<1> USE DEF A!authenticate, AP!authenticate, A!Expired, AP!Expired, A!Closed,
            AP!Closed, A!FreeSlot, AP!FreeSlot, A!Lost, AP!Lost, A!Aborted,
            AP!Aborted, A!OpenOps, AP!OpenOps, A!Handled, AP!Handled, A!Issued,
            AP!Issued
<1>1. A!Cli <=> AP!Cli
  BY DEF A!Cli, AP!Cli, A!CliTokenCreate, AP!CliTokenCreate, A!CliTokenRevoke,
         AP!CliTokenRevoke, A!Representable, AP!Representable, A!insert_token,
         AP!insert_token, A!NewRow, AP!NewRow, A!revoke_token, AP!revoke_token
<1>2. A!Tick <=> AP!Tick
  BY DEF A!Tick, AP!Tick
<1>3. A!Crash <=> AP!Crash
  BY DEF A!Crash, AP!Crash, A!ProcessEnds, AP!ProcessEnds
<1>4. A!Arrive(c) <=> AP!Arrive(c)
  BY DEF A!Arrive, AP!Arrive, A!PlainRequests, AP!PlainRequests, A!ProjectOps,
         AP!ProjectOps, A!EarlyFlaws, AP!EarlyFlaws, A!LateFlaws, AP!LateFlaws,
         A!Dead, AP!Dead
<1>5. A!ResolveName(c) <=> AP!ResolveName(c)
  BY DEF A!ResolveName, AP!ResolveName
<1>6. A!Authenticate(c) <=> AP!Authenticate(c)
  BY DEF A!Authenticate, AP!Authenticate
<1>7. A!HandleOpen(c) <=> AP!HandleOpen(c)
  BY DEF A!HandleOpen, AP!HandleOpen
<1>8. A!HangUp(c) <=> AP!HangUp(c)
  BY DEF A!HangUp, AP!HangUp, A!HasBody, AP!HasBody
<1>9. A!Record(c) <=> AP!Record(c)
  BY DEF A!Record, AP!Record
<1>10. A!Reply(c) <=> AP!Reply(c)
  BY DEF A!Reply, AP!Reply
<1> QED BY <1>1, <1>2, <1>3, <1>4, <1>5, <1>6, <1>7, <1>8, <1>9, <1>10

\* The handlers' steps agree.
LEMMA SameHandlers ==
  ASSUME NEW c
  PROVE  (A!Handle(c) <=> AP!Handle(c)) /\ (A!DatabaseFails(c) <=> AP!DatabaseFails(c))
<1> USE DEF A!Handled, AP!Handled
<1>1. /\ \A ops : A!Accepted(c, ops) <=> AP!Accepted(c, ops)
      /\ \A r : A!Refusal(r) = AP!Refusal(r)
  BY DEF A!Accepted, AP!Accepted, A!Refusal, AP!Refusal, A!EarlyFlaws,
         AP!EarlyFlaws, A!FlawCode, AP!FlawCode, A!Permitted, AP!Permitted,
         A!ProjectOps, AP!ProjectOps, A!TokenOps, AP!TokenOps
<1>2. A!HandleRefuse(c) <=> AP!HandleRefuse(c)
  BY <1>1 DEF A!HandleRefuse, AP!HandleRefuse
<1>3. A!HandleCreate(c) <=> AP!HandleCreate(c)
  BY <1>1 DEF A!HandleCreate, AP!HandleCreate
<1>4. A!HandleSecrets(c) <=> AP!HandleSecrets(c)
  BY <1>1 DEF A!HandleSecrets, AP!HandleSecrets
<1>5. A!HandleListProjects(c) <=> AP!HandleListProjects(c)
  BY <1>1 DEF A!HandleListProjects, AP!HandleListProjects
<1>6. A!HandleTokenList(c) <=> AP!HandleTokenList(c)
  BY <1>1 DEF A!HandleTokenList, AP!HandleTokenList
<1>7. A!HandleTokenRevoke(c) <=> AP!HandleTokenRevoke(c)
  BY <1>1 DEF A!HandleTokenRevoke, AP!HandleTokenRevoke, A!revoke_token,
              AP!revoke_token, A!Issued, AP!Issued
<1>8. A!TtlOverflow(c) <=> AP!TtlOverflow(c)
  BY <1>1 DEF A!TtlOverflow, AP!TtlOverflow, A!Representable, AP!Representable,
              A!ProcessEnds, AP!ProcessEnds, A!Closed, AP!Closed, A!FreeSlot,
              AP!FreeSlot, A!Lost, AP!Lost, A!Aborted, AP!Aborted
<1>9. \A t : A!HandleTokenCreate(c, t) <=> AP!HandleTokenCreate(c, t)
  BY <1>1 DEF A!HandleTokenCreate, AP!HandleTokenCreate, A!Representable,
              AP!Representable, A!insert_token, AP!insert_token, A!NewRow, AP!NewRow
<1>10. A!DatabaseFails(c) <=> AP!DatabaseFails(c)
  BY <1>1 DEF A!DatabaseFails, AP!DatabaseFails, A!OpenOps, AP!OpenOps, A!Ops,
              AP!Ops, A!ProjectOps, AP!ProjectOps, A!TokenOps, AP!TokenOps
<1> QED BY <1>2, <1>3, <1>4, <1>5, <1>6, <1>7, <1>8, <1>9, <1>10
           DEF A!Handle, AP!Handle

\* And so do all of them.
LEMMA SameAccessNext == A!Next <=> AP!Next
<1>1. \A c : A!Serve(c) <=> AP!Serve(c)
  BY SameMiddleware, SameHandlers DEF A!Serve, AP!Serve
<1> QED BY <1>1, SameMiddleware, SameHandlers DEF A!Next, AP!Next

-----------------------------------------------------------------------------
(***************************************************************************)
(* The store's half                                                        *)
(***************************************************************************)

\* A step of the server is a step of Vault, or none.
LEMMA StoreStep == ASSUME [Next]_vars PROVE [V!Next]_(V!vars)
<1>1. CASE UNCHANGED vars
  BY <1>1 DEF vars, storeVars, V!vars
<1>2. CASE Cli
  <2>1. UNCHANGED projects
    BY <1>2 DEF Cli, A!Cli, A!CliTokenCreate, A!CliTokenRevoke
  <2> QED BY <1>2, <2>1 DEF Cli, TokenCommit, V!Next, V!vars, storeVars
<1>3. CASE Tick
  BY <1>3 DEF Tick, A!Tick, storeVars, V!vars
<1>4. ASSUME NEW p \in Procs, Process(p) PROVE V!Next
  BY <1>4 DEF Process, V!Next, V!ServeStep, V!Operator
<1>5. ASSUME NEW p \in Procs, Crash(p) PROVE V!Next
  BY <1>5 DEF Crash, V!Next
<1>6. ASSUME NEW c \in Slots, Arrive(c) PROVE UNCHANGED V!vars
  BY <1>6 DEF Arrive, A!Arrive, storeVars, V!vars
<1>7. ASSUME NEW c \in Slots, Middleware(c) PROVE UNCHANGED V!vars
  BY <1>7 DEF Middleware, A!ResolveName, A!Authenticate, A!HandleListProjects,
              A!HandleTokenList, A!HandleOpen, A!HandleRefuse, A!Record, A!Reply,
              A!HangUp, storeVars, V!vars
<1>8. ASSUME NEW c \in Slots, Enter(c) PROVE V!Next
  BY <1>8 DEF Enter, HandlerRequests, V!Client, V!Next
<1>9. ASSUME NEW c \in Slots, HandlerStep(c) PROVE V!Next
  BY <1>9 DEF HandlerStep, V!Next
<1>10. ASSUME NEW c \in Slots, TokenHandler(c) PROVE [V!Next]_(V!vars)
  <2>1. UNCHANGED projects
    BY <1>10 DEF TokenHandler, A!HandleTokenCreate, A!HandleTokenRevoke
  <2> QED BY <1>10, <2>1 DEF TokenHandler, TokenCommit, V!Next, V!vars, storeVars
<1>11. ASSUME NEW c \in Slots, DatabaseFails(c) PROVE UNCHANGED V!vars
  BY <1>11 DEF DatabaseFails, A!DatabaseFails, storeVars, V!vars
<1>12. ASSUME NEW c \in Slots, TtlOverflow(c) PROVE V!Next
  BY <1>12 DEF TtlOverflow, V!Next
<1>13. ASSUME NEW c \in Slots, Gone(c) PROVE V!Next
  BY <1>13 DEF Gone, V!Next
<1> QED BY <1>1, <1>2, <1>3, <1>4, <1>5, <1>6, <1>7, <1>8, <1>9, <1>10, <1>11,
           <1>12, <1>13 DEF Next

\* The assumptions of Vault, as its other instance states them.
LEMMA VaultAssumed ==
  /\ MaxVersion \in Nat
  /\ None \notin Projects \cup SecretKeys \cup Values \cup Passphrases
  /\ None \notin Salts \cup Procs \cup VP!MasterKeys \cup VP!Ids \cup VP!Rows
  /\ None \notin VP!Entries
BY VaultAssumption DEF V!MasterKeys, V!Ids, V!Rows, V!Ciphertexts, V!Entries,
     VP!MasterKeys, VP!Ids, VP!Rows, VP!Ciphertexts, VP!Entries

\* What was proved of Vault holds of the store's half of the server.
LEMMA StoreInvInit == V!Init => V!Inv
BY VaultAssumed, VP!InitInv, SameInit, SameStoreInv DEF VP!InitInv

\* And stays so.
LEMMA StoreInvStep == V!Inv /\ [Next]_vars => V!Inv'
<1> SUFFICES ASSUME V!Inv, [Next]_vars PROVE V!Inv' OBVIOUS
<1>1. [VP!Next]_(VP!vars)
  BY StoreStep, SameStoreNext DEF V!vars, VP!vars
<1>2. VP!Inv BY SameStoreInv
<1>3. VP!Inv' BY <1>1, <1>2, VaultAssumed, VP!NextInv DEF VP!NextInv
<1> QED BY <1>3, SameStoreInvNext

-----------------------------------------------------------------------------
(***************************************************************************)
(* The requests' half                                                      *)
(***************************************************************************)

\* A request that is in a project handler passed every check and is the one that
\* the handler was given, unless its connection was lost.
Link(c) ==
  InHandler(c) =>
    \/ arq[c].st = "done"
    \/ /\ A!Accepted(c, A!ProjectOps)
       /\ vrq[c].op = arq[c].op
       /\ vrq[c].id[1] = arq[c].on

\* What the invariant of Access says of a request, in the words of Service.
LEMMA AccessFacts ==
  ASSUME AP!Inv
  PROVE  /\ arq \in [Slots -> A!RequestStates]
         /\ tokens \in [Tokens -> A!Rows \cup {None}]
         /\ sent \in Nat
         /\ \A c \in Slots : /\ arq[c].st # "free" => arq[c].n \in 1..sent
                             /\ arq[c].st = "authed" =>
                                  /\ arq[c].op \notin A!OpenOps
                                  /\ ~arq[c].dead
                                  /\ arq[c].tok \in A!Issued
                                  /\ arq[c].auth.scope = tokens[arq[c].tok].scope
                                  /\ arq[c].seen = {}
                                  /\ arq[c].op \in A!ProjectOps
                                       => arq[c].on \in Projects
                                  /\ arq[c].op = "token_create"
                                       => arq[c].on \in Names
                             /\ arq[c].st \notin {"free", "recorded", "done"} =>
                                  \A e \in log : e.n # arq[c].n
         /\ \A c, d \in Slots :
              arq[c].st # "free" /\ arq[d].st # "free" /\ arq[c].n = arq[d].n => c = d
         /\ \A e \in log : e.n \in 1..sent
<1>1. /\ AP!TypeOK /\ AP!Numbered
      /\ \A c \in Slots : /\ AP!CarriesTruth(c) /\ AP!Progress(c)
                          /\ AP!Barred(c) /\ AP!Audited(c)
  BY DEF AP!Inv
<1>2. arq \in [Slots -> A!RequestStates] /\ tokens \in [Tokens -> A!Rows \cup {None}]
  BY <1>1 DEF AP!TypeOK, AP!RequestStates, A!RequestStates, AP!Stages, A!Stages,
       AP!Ops, A!Ops, AP!ProjectOps, A!ProjectOps, AP!TokenOps, A!TokenOps,
       AP!OpenOps, A!OpenOps, AP!AuthedTokens, A!AuthedTokens, AP!Statuses,
       A!Statuses, AP!Lost, A!Lost, AP!Aborted, A!Aborted, AP!Rows, A!Rows
<1>3. /\ \A c \in Slots : arq[c].st # "free" => arq[c].n \in 1..sent
      /\ \A c, d \in Slots :
           arq[c].st # "free" /\ arq[d].st # "free" /\ arq[c].n = arq[d].n => c = d
      /\ \A e \in log : e.n \in 1..sent
  BY <1>1 DEF AP!Numbered
<1>4. ASSUME NEW c \in Slots, arq[c].st = "authed"
      PROVE  /\ arq[c].op \notin A!OpenOps
             /\ ~arq[c].dead
             /\ arq[c].tok \in A!Issued
             /\ arq[c].auth.scope = tokens[arq[c].tok].scope
             /\ arq[c].seen = {}
             /\ arq[c].op \in A!ProjectOps => arq[c].on \in Projects
             /\ arq[c].op = "token_create" => arq[c].on \in Names
  <2>1. /\ arq[c].op \notin A!OpenOps /\ arq[c].tok \in A!Issued
        /\ arq[c].auth.scope = tokens[arq[c].tok].scope
    <3>1. /\ arq[c].op \notin AP!OpenOps /\ arq[c].tok \in AP!Issued
          /\ arq[c].auth = [name |-> tokens[arq[c].tok].name,
                            scope |-> tokens[arq[c].tok].scope]
      BY <1>1, <1>4 DEF AP!CarriesTruth
    <3> QED BY <3>1 DEF AP!OpenOps, A!OpenOps, AP!Issued, A!Issued
  <2>2. ~arq[c].dead
    BY <1>1, <1>4, <2>1 DEF AP!Barred, AP!OpenOps, A!OpenOps
  <2>3. /\ arq[c].seen = {}
        /\ arq[c].op \in A!ProjectOps => arq[c].on \in Projects
        /\ arq[c].op = "token_create" => arq[c].on \in Names
    BY <1>1, <1>4 DEF AP!Progress, AP!OnItsKind, AP!ProjectOps, A!ProjectOps
  <2> QED BY <2>1, <2>2, <2>3
<1>5. ASSUME NEW c \in Slots, arq[c].st \notin {"free", "recorded", "done"}
      PROVE  \A e \in log : e.n # arq[c].n
  BY <1>1, <1>5 DEF AP!Audited, AP!EntriesOf
<1>6. sent \in Nat BY <1>1 DEF AP!TypeOK
<1> QED BY <1>2, <1>3, <1>4, <1>5, <1>6

\* What a handler step may come to: it goes on, or it ends in a status that says
\* what it found.  A 500 means a failure: no row is unreadable, and no project or
\* row that was found is gone.
GoesOn(c) == /\ vrq'[c].st \in V!InHandler
             /\ UNCHANGED projects

Outcome(c, code) ==
  \/ code = 500 /\ Faults /\ UNCHANGED projects
  \/ /\ arq[c].op = "create" /\ arq[c].on \in projects
     /\ code = 409 /\ UNCHANGED projects
  \/ /\ arq[c].op = "create" /\ arq[c].on \notin projects
     /\ code = 201 /\ projects' = projects \cup {arq[c].on}
  \/ /\ arq[c].op # "create" /\ arq[c].on \notin projects
     /\ code = 404 /\ UNCHANGED projects
  \/ /\ arq[c].op \in {"get", "put"} /\ arq[c].on \in projects
     /\ code = 200 /\ UNCHANGED projects
  \/ /\ arq[c].op = "delete" /\ arq[c].on \in projects
     /\ code \in {204, 404} /\ UNCHANGED projects

\* The step of Vault in a handler step.
StoreMove(c) == \/ \E p \in Procs : V!Lookup(c, p) \/ (Faults /\ V!LookupFails(c, p))
                \/ V!Handler(c)
                \/ Faults /\ V!HandlerFails(c)

\* It moves only its own request, and ends it as Outcome says.
Moves(c) ==
  /\ InHandler(c)
  /\ \A d \in Slots \ {c} : vrq'[d] = vrq[d]
  /\ vrq'[c].op = vrq[c].op /\ vrq'[c].id = vrq[c].id
  /\ GoesOn(c) \/ (vrq'[c].st = "done" /\ Outcome(c, vrq'[c].res.code))

\* A result carries its code.
LEMMA CodeOf == \A n : V!Code(n).code = n
BY DEF V!Code, V!NoResult

\* A handler moves only its own request, and ends it as Outcome says.
LEMMA HandlerOutcome ==
  ASSUME V!Inv, NEW c \in Slots, vrq[c].op = arq[c].op, vrq[c].id[1] = arq[c].on,
         StoreMove(c)
  PROVE  Moves(c)
<1>1. vrq \in [Slots -> V!RequestStates] /\ vrq[c] \in V!RequestStates
  BY DEF V!Inv, V!TypeOK
<1>2. V!RequestOK(c) BY DEF V!Inv
<1>3. ASSUME NEW p \in Procs, V!Lookup(c, p)
      PROVE  Moves(c)
  <2>1. CASE V!Wanted(c)
    <3>1. /\ vrq' = [vrq EXCEPT ![c].st = "looked", ![c].by = p]
          /\ vrq[c].st = "sent" /\ UNCHANGED projects
      BY <1>3, <2>1 DEF V!Lookup, V!database
    <3>2. vrq'[c].st = "looked" /\ vrq'[c].op = vrq[c].op /\ vrq'[c].id = vrq[c].id
      BY <1>1, <3>1 DEF V!RequestStates
    <3>3. \A d \in Slots \ {c} : vrq'[d] = vrq[d] BY <1>1, <3>1
    <3>4. InHandler(c) /\ GoesOn(c) BY <3>1, <3>2 DEF V!InHandler, GoesOn, InHandler
    <3> QED BY <3>2, <3>3, <3>4 DEF Moves
  <2>2. CASE ~V!Wanted(c)
    <3>1. PICK n : /\ n = IF vrq[c].op = "create" THEN 409 ELSE 404
                   /\ vrq' = [vrq EXCEPT ![c].st = "done", ![c].res = V!Code(n)]
      BY <1>3, <2>2 DEF V!Lookup, V!Answered
    <3>2. vrq'[c].st = "done" /\ vrq'[c].res.code = n
      BY <1>1, <3>1, CodeOf DEF V!RequestStates
    <3>3. Outcome(c, n)
      BY <1>3, <2>2, <3>1 DEF V!Lookup, V!Wanted, V!database, Outcome
    <3> QED BY <1>1, <1>3, <3>1, <3>2, <3>3 DEF V!Lookup, V!RequestStates, InHandler,
               Moves
  <2> QED BY <2>1, <2>2
<1>4. ASSUME NEW n, NEW r, r.code = n,
             vrq' = V!Answered(c, r) \/ V!Finish(c, r),
             vrq[c].st \in {"sent", "looked", "written"}, Outcome(c, n)
      PROVE  Moves(c)
  <2>1. vrq'[c].st = "done" /\ vrq'[c].res.code = n
    BY <1>1, <1>4 DEF V!Answered, V!Finish, V!RequestStates
  <2> QED BY <1>1, <1>4, <2>1 DEF V!Answered, V!Finish, V!RequestStates, InHandler,
             Moves
<1>5. ASSUME Faults, NEW p \in Procs, V!LookupFails(c, p)
      PROVE  Moves(c)
  <2>1. vrq' = V!Answered(c, V!Code(500)) /\ vrq[c].st = "sent" /\ UNCHANGED projects
    BY <1>5 DEF V!LookupFails, V!database
  <2>2. Outcome(c, 500) BY <1>5, <2>1 DEF Outcome
  <2> QED BY <1>4, <2>1, <2>2, CodeOf
<1>6. ASSUME V!CreateInsert(c)
      PROVE  Moves(c)
  <2>1. /\ vrq[c].st = "looked" /\ vrq[c].op = "create" /\ vrq[c].id[1] \notin projects
        /\ V!Finish(c, V!Code(201)) /\ projects' = projects \cup {vrq[c].id[1]}
    BY <1>2, <1>6 DEF V!CreateInsert, V!Handling, V!RequestOK, V!Wanted
  <2>2. Outcome(c, 201) BY <2>1 DEF Outcome
  <2> QED BY <1>4, <2>1, <2>2, CodeOf
<1>7. ASSUME V!DeleteRow(c)
      PROVE  Moves(c)
  <2>1. PICK n \in {204, 404} : V!Finish(c, V!Code(n))
    BY <1>7 DEF V!DeleteRow
  <2>2. /\ vrq[c].st = "looked" /\ vrq[c].op = "delete" /\ vrq[c].id[1] \in projects
        /\ UNCHANGED projects
    BY <1>2, <1>7 DEF V!DeleteRow, V!Handling, V!RequestOK, V!Wanted
  <2>3. Outcome(c, n) BY <2>1, <2>2 DEF Outcome
  <2> QED BY <1>4, <2>1, <2>2, <2>3, CodeOf
<1>8. ASSUME V!GetRows(c)
      PROVE  Moves(c)
  <2>1. /\ vrq[c].st = "looked" /\ vrq[c].op = "get" /\ vrq[c].id[1] \in projects
        /\ UNCHANGED projects
    BY <1>2, <1>8 DEF V!GetRows, V!Handling, V!RequestOK, V!Wanted, V!database
  <2>2. proc[vrq[c].by].key = meta.verifier
    BY <1>2, <2>1 DEF V!RequestOK, V!InHandler, V!Inv, V!ProcOK
  <2>3. vrq[c].id[1] \in Projects BY <2>1 DEF V!Inv, V!TypeOK
  <2>4. \A k \in SecretKeys : secrets[<<vrq[c].id[1], k>>] # None =>
          V!opens(meta.verifier, secrets[<<vrq[c].id[1], k>>].ct, <<vrq[c].id[1], k>>)
    BY <2>3 DEF V!Inv, V!AllRowsDecrypt, V!Opens, V!Row, V!Ids
  <2>5. PICK x : V!Finish(c, [V!Code(200) EXCEPT !.map = x])
    <3> DEFINE name == vrq[c].id[1]
               rows == {k \in SecretKeys : secrets[<<name, k>>] # None}
               x == [k \in SecretKeys |-> IF k \in rows
                                            THEN secrets[<<name, k>>].ct.plain ELSE None]
    <3>1. \A k \in rows : V!opens(proc[vrq[c].by].key, secrets[<<name, k>>].ct, <<name, k>>)
      BY <2>2, <2>4
    <3>2. V!Finish(c, [V!Code(200) EXCEPT !.map = x])
      BY <1>8, <3>1, Zenon DEF V!GetRows
    <3> QED BY <3>2
  <2>6. [V!Code(200) EXCEPT !.map = x].code = 200 BY DEF V!Code, V!NoResult
  <2>7. PICK r : r.code = 200 /\ V!Finish(c, r) BY <2>5, <2>6, Zenon
  <2>8. Outcome(c, 200) BY <2>1 DEF Outcome
  <2> QED BY <1>4, <2>1, <2>7, <2>8
<1>9. ASSUME V!PutUpsert(c)
      PROVE  Moves(c)
  <2>1. /\ vrq' = [vrq EXCEPT ![c].st = "written"] /\ vrq[c].st = "looked"
        /\ UNCHANGED projects
    BY <1>9 DEF V!PutUpsert, V!Handling
  <2>2. vrq'[c].st = "written" /\ vrq'[c].op = vrq[c].op /\ vrq'[c].id = vrq[c].id
    BY <1>1, <2>1 DEF V!RequestStates
  <2>3. \A d \in Slots \ {c} : vrq'[d] = vrq[d] BY <1>1, <2>1
  <2>4. InHandler(c) /\ GoesOn(c) BY <2>1, <2>2 DEF V!InHandler, GoesOn, InHandler
  <2> QED BY <2>2, <2>3, <2>4 DEF Moves
<1>10. ASSUME V!PutVersion(c)
       PROVE  Moves(c)
  <2>1. /\ vrq[c].st = "written" /\ vrq[c].op = "put" /\ vrq[c].id[1] \in projects
        /\ secrets[vrq[c].id] # None /\ UNCHANGED projects
    BY <1>2, <1>10 DEF V!PutVersion, V!Handling, V!RequestOK, V!database
  <2>2. PICK x : V!Finish(c, [V!Code(200) EXCEPT !.ver = x])
    BY <1>10, <2>1 DEF V!PutVersion
  <2>3. [V!Code(200) EXCEPT !.ver = x].code = 200 BY DEF V!Code, V!NoResult
  <2>4. PICK r : r.code = 200 /\ V!Finish(c, r) BY <2>2, <2>3, Zenon
  <2>5. Outcome(c, 200) BY <2>1 DEF Outcome
  <2> QED BY <1>4, <2>1, <2>4, <2>5
<1>11. ASSUME Faults, V!HandlerFails(c)
       PROVE  Moves(c)
  <2>1. V!Finish(c, V!Code(500)) /\ vrq[c].st \in {"looked", "written"}
        /\ UNCHANGED projects
    BY <1>11 DEF V!HandlerFails, V!InHandler, V!database
  <2>2. Outcome(c, 500) BY <1>11, <2>1 DEF Outcome
  <2> QED BY <1>4, <2>1, <2>2, CodeOf
<1> QED BY <1>3, <1>5, <1>6, <1>7, <1>8, <1>9, <1>10, <1>11
           DEF StoreMove, V!Handler

\* A step of a request's handler, as the middleware sees it.
LEMMA HandlerMoves ==
  ASSUME V!Inv, NEW c \in Slots, Link(c), HandlerStep(c)
  PROVE  /\ A!Accepted(c, A!ProjectOps)
         /\ vrq[c].op = arq[c].op /\ vrq[c].id[1] = arq[c].on
         /\ Moves(c)
<1>1. StoreMove(c) /\ arq[c].st = "authed" BY DEF HandlerStep, StoreMove
<1>2. InHandler(c)
  BY <1>1 DEF StoreMove, V!Lookup, V!LookupFails, V!Handler, V!HandlerFails,
     V!CreateInsert, V!GetRows, V!PutUpsert, V!PutVersion, V!DeleteRow, V!Handling,
     V!InHandler, InHandler
<1>3. A!Accepted(c, A!ProjectOps) /\ vrq[c].op = arq[c].op /\ vrq[c].id[1] = arq[c].on
  BY <1>1, <1>2 DEF Link
<1> QED BY <1>1, <1>3, HandlerOutcome

\* Telling nothing changes nothing in a request that has told nothing.
LEMMA NothingTold ==
  ASSUME NEW r \in A!RequestStates, r.seen = {}, NEW code
  PROVE  [r EXCEPT !.st = "handled", !.code = code, !.seen = {}]
           = [r EXCEPT !.st = "handled", !.code = code]
BY DEF A!RequestStates

\* A handler step is one of Access: its status is one that Access gives.
LEMMA HandlerAccess ==
  ASSUME V!Inv, AP!Inv, NEW c \in Slots, Link(c), HandlerStep(c)
  PROVE  [A!Next]_(A!vars)
<1>1. /\ A!Accepted(c, A!ProjectOps) /\ Moves(c)
      /\ UNCHANGED <<tokens, now, sent, log, unlogged, withdrawn>>
  BY HandlerMoves DEF HandlerStep
<1>2. CASE GoesOn(c)
  BY <1>1, <1>2 DEF GoesOn, HandlerStep, V!InHandler, A!vars
<1>3. CASE vrq'[c].st = "done" /\ Outcome(c, vrq'[c].res.code)
  <2>1. PICK code : code = vrq'[c].res.code OBVIOUS
  <2>2. Respond(c, code) /\ Outcome(c, code)
    BY <1>3, <2>1 DEF HandlerStep
  <2>3. arq \in [Slots -> A!RequestStates] /\ arq[c].seen = {}
    BY <1>1, AccessFacts DEF A!Accepted
  <2>4. ASSUME arq[c].op = "create" \/ arq[c].on \notin projects \/ code = 500
        PROVE  A!Handled(c, code)
    <3>1. arq' = [arq EXCEPT ![c] = [arq[c] EXCEPT !.st = "handled", !.code = code,
                                                  !.seen = {}]]
      <4>1. arq' = [arq EXCEPT ![c].st = "handled", ![c].code = code, ![c].seen = {}]
        BY <2>2, <2>4 DEF Respond
      <4> QED BY <2>3, <4>1
    <3>2. arq' = [arq EXCEPT ![c] = [arq[c] EXCEPT !.st = "handled", !.code = code]]
      BY <3>1, <2>3, NothingTold
    <3> QED BY <3>2, <2>3 DEF A!Handled
  <2>5. CASE code = 500 /\ Faults /\ UNCHANGED projects
    <3>1. A!Accepted(c, A!Ops)
      BY <1>1 DEF A!Accepted, A!Ops
    <3>2. A!DatabaseFails(c)
      BY <1>1, <2>4, <2>5, <3>1 DEF A!DatabaseFails
    <3> QED BY <3>2 DEF A!Next
  <2>6. CASE arq[c].op = "create" /\ code # 500
    <3>1. A!HandleCreate(c)
      BY <1>1, <2>2, <2>4, <2>6 DEF Outcome, A!HandleCreate, A!Accepted
    <3> QED BY <3>1 DEF A!Next, A!Serve, A!Handle
  <2>7. CASE arq[c].op # "create" /\ code # 500
    <3>1. A!Accepted(c, {"get", "put", "delete"})
      BY <1>1, <2>7 DEF A!Accepted, A!ProjectOps
    <3>2. CASE arq[c].on \notin projects
      <4>1. code = 404 /\ UNCHANGED projects BY <2>2, <2>7, <3>2 DEF Outcome
      <4>2. A!HandleSecrets(c)
        BY <1>1, <2>4, <3>1, <3>2, <4>1 DEF A!HandleSecrets
      <4> QED BY <4>2 DEF A!Next, A!Serve, A!Handle
    <3>3. CASE arq[c].on \in projects
      <4>1. arq' = [arq EXCEPT ![c].st = "handled", ![c].code = code,
                               ![c].seen = {arq[c].on}]
        BY <2>2, <2>7, <3>3 DEF Respond
      <4>2. /\ code \in (IF arq[c].op = "delete" THEN {204, 404} ELSE {200})
            /\ UNCHANGED projects
        BY <2>2, <2>7, <3>3 DEF Outcome
      <4>3. A!HandleSecrets(c)
        BY <1>1, <3>1, <3>3, <4>1, <4>2 DEF A!HandleSecrets
      <4> QED BY <4>3 DEF A!Next, A!Serve, A!Handle
    <3> QED BY <3>2, <3>3
  <2> QED BY <2>2, <2>5, <2>6, <2>7 DEF Outcome
<1> QED BY <1>1, <1>2, <1>3 DEF Moves

\* When a process ends, the requests in flight are closed, or there are none.
LEMMA EndsAccess ==
  ASSUME AP!Inv, A!ProcessEnds({})
  PROVE  [A!Next]_(A!vars)
<1>1. CASE \E c \in Slots : arq[c].st \notin {"free", "done"}
  BY <1>1 DEF A!Crash, A!Next
<1>2. CASE \A c \in Slots : arq[c].st \in {"free", "done"}
  <2>1. arq' = [c \in Slots |-> arq[c]]
    BY <1>2 DEF A!ProcessEnds
  <2>2. arq' = arq BY <2>1, AccessFacts
  <2> QED BY <2>2 DEF A!ProcessEnds, A!vars
<1> QED BY <1>1, <1>2

\* A step of the server is a step of Access, or none.
LEMMA AccessStep ==
  ASSUME V!Inv, AP!Inv, \A c \in Slots : Link(c), [Next]_vars
  PROVE  [A!Next]_(A!vars)
<1>1. CASE UNCHANGED vars
  BY <1>1 DEF vars, accessVars, A!vars
<1>2. CASE Cli \/ Tick
  BY <1>2 DEF Cli, Tick, A!Next
<1>3. ASSUME NEW p \in Procs, Process(p) PROVE UNCHANGED A!vars
  <2>1. UNCHANGED projects
    BY <1>3 DEF Process, V!ServeReadSalt, V!ServeVerify, V!ServeInitialize,
       V!ServeBind, V!ServeStop, V!ServeLock, V!RekeyLock, V!Answer,
       V!ServePassphrase, V!RekeyPassphrases, V!NoPassphrase, V!RekeyStep,
       V!RekeyReadSalt, V!RekeySelect, V!RekeyVerify, V!RekeyRow, V!RekeyCommit,
       V!RekeyAborts, V!database
  <2> QED BY <1>3, <2>1 DEF Process, accessVars, A!vars
<1>4. ASSUME NEW p \in Procs, Crash(p) PROVE [A!Next]_(A!vars)
  <2>1. UNCHANGED projects BY <1>4 DEF Crash, V!Crash, V!database
  <2> QED BY <1>4, <2>1, EndsAccess DEF Crash, accessVars, A!vars
<1>5. ASSUME NEW c \in Slots, Arrive(c) \/ DatabaseFails(c) PROVE A!Next
  BY <1>5 DEF Arrive, DatabaseFails, A!Next
<1>6. ASSUME NEW c \in Slots, Middleware(c) PROVE A!Next
  BY <1>6 DEF Middleware, A!Next, A!Serve, A!Handle
<1>7. ASSUME NEW c \in Slots, Enter(c) \/ Gone(c) PROVE UNCHANGED A!vars
  BY <1>7 DEF Enter, Gone, V!Send, V!Unreachable, V!database, accessVars, A!vars
<1>8. ASSUME NEW c \in Slots, HandlerStep(c) PROVE [A!Next]_(A!vars)
  BY <1>8, HandlerAccess
<1>9. ASSUME NEW c \in Slots, TokenHandler(c) \/ TtlOverflow(c) PROVE A!Next
  BY <1>9 DEF TokenHandler, TtlOverflow, A!Next, A!Serve, A!Handle
<1> QED BY <1>1, <1>2, <1>3, <1>4, <1>5, <1>6, <1>7, <1>8, <1>9 DEF Next

\* The assumptions of Access, as its other instance states them.
LEMMA AccessAssumed ==
  /\ TTLs \subseteq Nat
  /\ MaxDate \in Nat /\ MaxTime \in Nat /\ MaxRequests \in Nat
  /\ Faults \in BOOLEAN
  /\ None \notin Tokens \cup Names \cup Projects \cup Nat
  /\ ClientOps \subseteq {"create", "get", "put", "delete", "token_create",
                          "token_list", "token_revoke", "list_projects", "health",
                          "unmatched"}
  /\ Flaws \subseteq {"malformed", "too_large", "bad_name", "bad_key",
                      "ttl_conflict"}
  /\ None \notin AP!Rows
BY AccessAssumption DEF A!Ops, A!ProjectOps, A!TokenOps, A!OpenOps, A!Rows, AP!Rows

\* What was proved of Access holds of the requests' half.
LEMMA AccessInvInit == A!Init => AP!Inv
BY AccessAssumed, AP!InitInv, SameInit DEF AP!InitInv

\* And stays so.
LEMMA AccessInvStep ==
  ASSUME V!Inv, AP!Inv, \A c \in Slots : Link(c), [Next]_vars
  PROVE  AP!Inv'
<1>1. [AP!Next]_(AP!vars)
  BY AccessStep, SameAccessNext DEF A!vars, AP!vars
<1> QED BY <1>1, AccessAssumed, AP!NextInv DEF AP!NextInv

-----------------------------------------------------------------------------
(***************************************************************************)
(* The two halves stay together                                            *)
(***************************************************************************)

\* The link of a slot that nothing happens to, or whose handler is over, holds.
LEMMA LinkKept ==
  ASSUME NEW d \in Slots, Link(d),
         \/ arq'[d] = arq[d] \/ arq'[d].st = "done",
         \/ vrq'[d] = vrq[d] \/ vrq'[d].st = "done"
  PROVE  Link(d)'
BY DEF Link, InHandler, A!Accepted

\* The steps outside a handler are of requests that are in none.
LEMMA OutsideHandler ==
  ASSUME NEW c \in Slots, Link(c),
         Arrive(c) \/ Middleware(c) \/ DatabaseFails(c) \/ TokenHandler(c)
  PROVE  ~InHandler(c)
<1> SUFFICES ASSUME InHandler(c) PROVE FALSE OBVIOUS
<1>1. arq[c].st = "done" \/ A!Accepted(c, A!ProjectOps) BY DEF Link
<1>2. CASE Arrive(c) BY <1>2 DEF Arrive
<1>3. CASE Middleware(c)
  BY <1>1, <1>3 DEF Middleware, A!ResolveName, A!Authenticate, A!HandleListProjects,
     A!HandleTokenList, A!HandleOpen, A!HandleRefuse, A!Record, A!Reply, A!Accepted,
     A!ProjectOps
<1>4. CASE DatabaseFails(c)
  BY <1>1, <1>4 DEF DatabaseFails, A!DatabaseFails, A!Accepted
<1>5. CASE TokenHandler(c)
  BY <1>1, <1>5 DEF TokenHandler, A!HandleTokenCreate, A!HandleTokenRevoke,
     A!Accepted, A!ProjectOps
<1> QED BY <1>2, <1>3, <1>4, <1>5

\* They leave the other requests, and all the handlers, alone.
LEMMA OutsideOthers ==
  ASSUME AP!Inv, NEW c \in Slots,
         Arrive(c) \/ Middleware(c) \/ DatabaseFails(c) \/ TokenHandler(c)
  PROVE  vrq' = vrq /\ \A d \in Slots \ {c} : arq'[d] = arq[d]
<1>1. arq \in [Slots -> A!RequestStates] BY AccessFacts
<1>2. vrq' = vrq
  BY DEF Arrive, Middleware, DatabaseFails, TokenHandler, TokenCommit, storeVars,
     V!CliTokenCommit
<1>3. CASE Arrive(c)
  <2>1. PICK r : arq' = [arq EXCEPT ![c] = r] BY <1>3 DEF Arrive, A!Arrive
  <2> QED BY <1>1, <1>2, <2>1
<1>4. CASE Middleware(c)
  BY <1>1, <1>2, <1>4 DEF Middleware, A!ResolveName, A!Authenticate,
     A!HandleListProjects, A!HandleTokenList, A!HandleOpen, A!HandleRefuse, A!Record,
     A!Reply, A!HangUp, A!Handled
<1>5. CASE DatabaseFails(c) \/ TokenHandler(c)
  BY <1>1, <1>2, <1>5 DEF DatabaseFails, A!DatabaseFails, TokenHandler,
     A!HandleTokenCreate, A!HandleTokenRevoke, A!Handled
<1> QED BY <1>3, <1>4, <1>5

\* A request that its process takes along is closed.
LEMMA EndsRequests ==
  ASSUME NEW S, A!ProcessEnds(S), NEW d \in Slots
  PROVE  arq'[d] = arq[d] \/ arq'[d].st = "done"
BY DEF A!ProcessEnds, A!Closed, A!FreeSlot

\* So is its handler.
LEMMA CrashHandlers ==
  ASSUME V!Inv, NEW p \in Procs, V!Crash(p), NEW d \in Slots
  PROVE  vrq'[d] = vrq[d] \/ vrq'[d].st = "done"
<1>1. vrq[d] \in V!RequestStates BY DEF V!Inv, V!TypeOK
<1> QED BY <1>1 DEF V!Crash, V!RequestStates

\* Every step preserves the links.
LEMMA LinkStep ==
  ASSUME V!Inv, AP!Inv, \A c \in Slots : Link(c), [Next]_vars, NEW d \in Slots
  PROVE  Link(d)'
<1>1. Link(d) OBVIOUS
<1>2. CASE UNCHANGED <<vrq, arq>>
  BY <1>1, <1>2, LinkKept
<1>3. CASE UNCHANGED vars \/ Cli \/ Tick
  <2>1. UNCHANGED <<vrq, arq>>
    BY <1>3 DEF vars, storeVars, accessVars, Cli, Tick, TokenCommit, V!CliTokenCommit,
       A!Cli, A!CliTokenCreate, A!CliTokenRevoke, A!Tick
  <2> QED BY <1>2, <2>1
<1>4. ASSUME NEW p \in Procs, Process(p) PROVE Link(d)'
  <2>1. UNCHANGED <<vrq, arq>>
    BY <1>4 DEF Process, V!ServeReadSalt, V!ServeVerify, V!ServeInitialize,
       V!ServeBind, V!ServeStop, V!ServeLock, V!RekeyLock, V!Answer,
       V!ServePassphrase, V!RekeyPassphrases, V!NoPassphrase, V!RekeyStep,
       V!RekeyReadSalt, V!RekeySelect, V!RekeyVerify, V!RekeyRow, V!RekeyCommit,
       V!RekeyAborts, accessVars
  <2> QED BY <1>2, <2>1
<1>5. ASSUME NEW p \in Procs, Crash(p) PROVE Link(d)'
  <2>1. arq'[d] = arq[d] \/ arq'[d].st = "done"
    BY <1>5, EndsRequests DEF Crash, accessVars
  <2>2. vrq'[d] = vrq[d] \/ vrq'[d].st = "done"
    BY <1>5, CrashHandlers DEF Crash
  <2> QED BY <1>1, <2>1, <2>2, LinkKept
<1>6. ASSUME NEW c \in Slots, TtlOverflow(c) PROVE Link(d)'
  <2>1. arq'[d] = arq[d] \/ arq'[d].st = "done"
    BY <1>6, EndsRequests DEF TtlOverflow, A!TtlOverflow
  <2>2. vrq'[d] = vrq[d] \/ vrq'[d].st = "done"
    BY <1>6, CrashHandlers DEF TtlOverflow
  <2> QED BY <1>1, <2>1, <2>2, LinkKept
<1>7. ASSUME NEW c \in Slots,
             Arrive(c) \/ Middleware(c) \/ DatabaseFails(c) \/ TokenHandler(c)
      PROVE  Link(d)'
  <2>1. vrq' = vrq /\ (d # c => arq'[d] = arq[d]) BY <1>7, OutsideOthers
  <2>2. d = c => ~InHandler(d) BY <1>7, OutsideHandler
  <2>3. CASE d = c BY <2>1, <2>2, <2>3 DEF Link, InHandler
  <2>4. CASE d # c BY <1>1, <2>1, <2>4, LinkKept
  <2> QED BY <2>3, <2>4
<1>8. ASSUME NEW c \in Slots, Enter(c) PROVE Link(d)'
  <2>1. PICK r : /\ r.op = arq[c].op /\ r.id[1] = arq[c].on
                 /\ vrq' = [vrq EXCEPT ![c] = [st |-> "sent", op |-> r.op, id |-> r.id,
                                               val |-> r.val, by |-> None,
                                               res |-> V!NoResult]]
    BY <1>8 DEF Enter, HandlerRequests, V!Send
  <2>2. A!Accepted(c, A!ProjectOps) /\ arq' = arq
    BY <1>8 DEF Enter, accessVars
  <2>3. vrq \in [Slots -> V!RequestStates] BY DEF V!Inv, V!TypeOK
  <2>4. CASE d = c BY <2>1, <2>2, <2>3, <2>4 DEF Link, A!Accepted
  <2>5. CASE d # c BY <1>1, <2>1, <2>2, <2>3, <2>5, LinkKept
  <2> QED BY <2>4, <2>5
<1>9. ASSUME NEW c \in Slots, HandlerStep(c) PROVE Link(d)'
  <2>1. /\ A!Accepted(c, A!ProjectOps) /\ Moves(c)
        /\ vrq[c].op = arq[c].op /\ vrq[c].id[1] = arq[c].on
    BY <1>9, HandlerMoves
  <2>2. arq \in [Slots -> A!RequestStates] BY AccessFacts
  <2>3. d # c => arq'[d] = arq[d] /\ vrq'[d] = vrq[d]
    BY <1>9, <2>1, <2>2 DEF HandlerStep, Respond, Moves
  <2>4. CASE d # c BY <1>1, <2>3, <2>4, LinkKept
  <2>5. CASE d = c /\ vrq'[d].st = "done" BY <2>5 DEF Link, InHandler
  <2>6. CASE d = c /\ vrq'[d].st # "done"
    <3>1. arq' = arq /\ vrq'[c].op = vrq[c].op /\ vrq'[c].id = vrq[c].id
      BY <1>9, <2>1, <2>6 DEF HandlerStep, Moves
    <3> QED BY <2>1, <2>6, <3>1 DEF Link, A!Accepted
  <2> QED BY <2>4, <2>5, <2>6
<1>10. ASSUME NEW c \in Slots, Gone(c) PROVE Link(d)'
  <2>1. arq' = arq /\ vrq' = [vrq EXCEPT ![c].st = "done", ![c].res = V!Code(0)]
    BY <1>10 DEF Gone, V!Unreachable, V!Answered, accessVars
  <2>2. vrq \in [Slots -> V!RequestStates] BY DEF V!Inv, V!TypeOK
  <2>3. vrq'[d] = vrq[d] \/ vrq'[d].st = "done"
    BY <2>1, <2>2 DEF V!RequestStates
  <2> QED BY <1>1, <2>1, <2>3, LinkKept
<1> QED BY <1>3, <1>4, <1>5, <1>6, <1>7, <1>8, <1>9, <1>10 DEF Next

\* What Vault and Access rely on, and that they go together.
Halves == V!Inv /\ AP!Inv /\ \A c \in Slots : Link(c)

\* It holds at the start.
LEMMA HalvesInit == Init => Halves
<1> SUFFICES ASSUME Init PROVE Halves OBVIOUS
<1>1. V!Inv /\ AP!Inv BY StoreInvInit, AccessInvInit DEF Init
<1>2. ASSUME NEW c \in Slots PROVE Link(c)
  BY DEF Init, V!Init, V!FreeSlot, Link, InHandler
<1> QED BY <1>1, <1>2 DEF Halves

\* And every step keeps it.
LEMMA HalvesStep == Halves /\ [Next]_vars => Halves'
<1> SUFFICES ASSUME Halves, [Next]_vars PROVE Halves' OBVIOUS
<1>1. V!Inv' /\ AP!Inv' BY StoreInvStep, AccessInvStep DEF Halves
<1>2. \A d \in Slots : Link(d)' BY LinkStep DEF Halves
<1> QED BY <1>1, <1>2 DEF Halves

\* However requests, crashes, rekeys and token commands interleave.
LEMMA HalvesAlways == Spec => []Halves
BY HalvesInit, HalvesStep, PTL DEF Spec

\* The composed server does to tokens, requests and the log what Access says,
\* although its statuses come out of the encrypted store: no answer is a 500 that
\* a rekey, another process or a lost row would explain (auth.rs, audit.rs,
\* handlers.rs, crypto_state.rs).
THEOREM RefinesAccess == Spec => ImplementsAccess
<1>1. Halves /\ [Next]_vars => [UNCHANGED A!vars \/ A!Next]_vars
  BY AccessStep DEF Halves
<1>2. Init => A!Init BY DEF Init
<1> QED BY <1>1, <1>2, HalvesAlways, PTL DEF Spec, ImplementsAccess

\* On the composed server too, a token that was dead when its request arrived gets
\* nothing and does nothing (auth.rs, repo.rs).
THEOREM DeadTokensRefused == Spec => []DeadOnArrival
<1>1. Halves => DeadOnArrival
  BY DEF Halves, AP!Inv, AP!Barred, AP!OpenOps, AP!Lost, DeadOnArrival,
     A!DeadOnArrival, A!OpenOps, A!Lost
<1> QED BY <1>1, HalvesAlways, PTL

-----------------------------------------------------------------------------
(***************************************************************************)
(* Who changes the store                                                   *)
(***************************************************************************)

\* What clients can read is the projects and the view of the rows.
LEMMA ReadableParts == Readable' = Readable <=> UNCHANGED <<projects, V!StoreView>>
BY DEF Readable

\* The view depends on the rows and on the key that opens them.
LEMMA ViewKept == ASSUME UNCHANGED <<meta, secrets>> PROVE UNCHANGED V!StoreView
BY DEF V!StoreView, V!Row, V!Opens

\* Both instances of Vault show the same view, before and after a step.
LEMMA SameView == V!StoreView = VP!StoreView /\ V!StoreView' = VP!StoreView'
BY DEF V!StoreView, VP!StoreView, V!Ids, VP!Ids, V!Row, VP!Row, V!Opens, VP!Opens,
       V!opens, VP!opens, V!Unreadable, VP!Unreadable

\* Starting, rekeying, stopping and token commands show clients nothing.
LEMMA ProcessesInvisible ==
  ASSUME V!Inv, V!Inv', NEW p \in Procs,
         V!Operator \/ V!CliTokenCommit \/ V!ServeStep(p) \/ V!RekeyStep(p)
  PROVE  Readable' = Readable
<1>1. VP!Inv /\ VP!Inv' BY SameStoreInv, SameStoreInvNext
<1>2. VP!Operator \/ VP!CliTokenCommit \/ VP!ServeStep(p) \/ VP!RekeyStep(p)
  BY SameServe, SameRekey, SameCommit
     DEF V!Operator, VP!Operator, V!Answer, VP!Answer
<1>3. UNCHANGED VP!Abs!vars
  BY <1>1, <1>2, VaultAssumed, VP!ProcessSim DEF VP!ProcessSim
<1>4. UNCHANGED <<projects, VP!StoreView>>
  BY <1>3 DEF VP!Abs!vars
<1> QED BY <1>4, SameView, ReadableParts

\* The step that deletes a row shows exactly when there was one.
LEMMA DeleteShows ==
  ASSUME V!Inv, NEW c \in Slots, V!DeleteRow(c)
  PROVE  IF secrets[vrq[c].id] = None THEN Readable' = Readable
                                      ELSE Readable' # Readable
<1>1. /\ secrets \in [V!Ids -> V!Rows \cup {None}] /\ V!AllRowsDecrypt
      /\ V!RequestOK(c)
  BY DEF V!Inv, V!TypeOK, V!Tables
<1>2. /\ vrq[c].st = "looked" /\ vrq[c].op = "delete" /\ UNCHANGED <<meta, projects>>
      /\ secrets' = [secrets EXCEPT ![vrq[c].id] = None]
  BY DEF V!DeleteRow, V!Handling
<1>3. vrq[c].id \in V!Ids
  BY <1>1, <1>2 DEF V!RequestOK, V!Requests
<1>4. CASE secrets[vrq[c].id] = None
  <2>1. secrets' = secrets BY <1>1, <1>2, <1>3, <1>4
  <2> QED BY <1>2, <1>4, <2>1, ViewKept, ReadableParts
<1>5. CASE secrets[vrq[c].id] # None
  <2>1. V!StoreView[vrq[c].id] = [val |-> secrets[vrq[c].id].ct.plain,
                                  ver |-> secrets[vrq[c].id].ver]
    BY <1>1, <1>3, <1>5 DEF V!StoreView, V!AllRowsDecrypt, V!Row
  <2>2. secrets[vrq[c].id].ct.plain \in Values /\ secrets[vrq[c].id].ver \in Nat
    BY <1>1, <1>3, <1>5 DEF V!Rows, V!Ciphertexts
  <2>3. V!StoreView[vrq[c].id] # None
    BY <2>1, <2>2, VaultAssumption DEF V!Entries
  <2>4. V!StoreView'[vrq[c].id] = None
    BY <1>1, <1>2, <1>3 DEF V!StoreView, V!Row
  <2> QED BY <1>5, <2>3, <2>4, ReadableParts
<1> QED BY <1>4, <1>5

\* What a handler step shows to clients: nothing, if its status is a miss or a
\* conflict or it only looks up; something, if it is 201 or 204.  After the write
\* of a PUT there is no miss or conflict.
Shows(c) ==
  /\ Readable' # Readable => vrq'[c].st # vrq[c].st
  /\ vrq'[c].st \notin {"done", "written"} =>
       Readable' = Readable /\ vrq[c].st # "written"
  /\ vrq'[c].st = "done" /\ vrq'[c].res.code \in {404, 409} =>
       Readable' = Readable /\ vrq[c].st # "written"
  /\ vrq'[c].st = "done" /\ vrq'[c].res.code \in {201, 204} => Readable' # Readable

\* Every handler step is such.
LEMMA HandlerShows ==
  ASSUME V!Inv, NEW c \in Slots, StoreMove(c)
  PROVE  Shows(c)
<1>1. vrq \in [Slots -> V!RequestStates] /\ vrq[c] \in V!RequestStates
  BY DEF V!Inv, V!TypeOK
<1>2. ASSUME UNCHANGED <<meta, projects, secrets>> PROVE Readable' = Readable
  BY <1>2, ViewKept, ReadableParts
<1>3. ASSUME NEW r, vrq' = V!Answered(c, r) \/ V!Finish(c, r)
      PROVE  vrq'[c].st = "done" /\ vrq'[c].res = r
  BY <1>1, <1>3 DEF V!Answered, V!Finish, V!RequestStates
<1>4. ASSUME NEW p \in Procs, V!Lookup(c, p) PROVE Shows(c)
  <2>1. Readable' = Readable /\ vrq[c].st = "sent"
    BY <1>2, <1>4 DEF V!Lookup, V!database
  <2>2. CASE V!Wanted(c)
    <3>1. vrq'[c].st = "looked"
      BY <1>1, <1>4, <2>2 DEF V!Lookup, V!RequestStates
    <3> QED BY <2>1, <3>1 DEF Shows
  <2>3. CASE ~V!Wanted(c)
    <3>1. PICK n \in {404, 409} : vrq' = V!Answered(c, V!Code(n))
      BY <1>4, <2>3 DEF V!Lookup
    <3>2. vrq'[c].st = "done" /\ vrq'[c].res.code = n BY <1>3, <3>1, CodeOf
    <3> QED BY <2>1, <3>2 DEF Shows
  <2> QED BY <2>2, <2>3
<1>5. ASSUME NEW p \in Procs, V!LookupFails(c, p) \/ V!HandlerFails(c)
      PROVE  Shows(c)
  <2>1. /\ vrq' = V!Answered(c, V!Code(500)) \/ V!Finish(c, V!Code(500))
        /\ Readable' = Readable
    BY <1>2, <1>5 DEF V!LookupFails, V!HandlerFails, V!database
  <2>2. vrq'[c].st = "done" /\ vrq'[c].res.code = 500 BY <1>3, <2>1, CodeOf
  <2> QED BY <2>1, <2>2 DEF Shows
<1>6. ASSUME V!CreateInsert(c) PROVE Shows(c)
  <2>1. V!RequestOK(c) BY DEF V!Inv
  <2>2. /\ vrq[c].st = "looked" /\ vrq[c].id[1] \notin projects
        /\ V!Finish(c, V!Code(201)) /\ projects' = projects \cup {vrq[c].id[1]}
    BY <1>6, <2>1 DEF V!CreateInsert, V!Handling, V!RequestOK, V!Wanted
  <2>3. vrq'[c].st = "done" /\ vrq'[c].res.code = 201 BY <1>3, <2>2, CodeOf
  <2>4. Readable' # Readable BY <2>2, ReadableParts
  <2> QED BY <2>2, <2>3, <2>4 DEF Shows
<1>7. ASSUME V!GetRows(c) \/ V!PutVersion(c) PROVE Shows(c)
  <2>1. Readable' = Readable
    BY <1>2, <1>7 DEF V!GetRows, V!PutVersion, V!database
  <2>2. ASSUME NEW r, r.code \in {200, 500}, V!Finish(c, r) PROVE Shows(c)
    BY <1>3, <2>1, <2>2 DEF Shows
  <2>3. CASE V!Finish(c, V!Code(500)) BY <2>2, <2>3, CodeOf
  <2>4. ASSUME NEW x, V!Finish(c, [V!Code(200) EXCEPT !.map = x]) PROVE Shows(c)
    <3>1. [V!Code(200) EXCEPT !.map = x].code = 200 BY DEF V!Code, V!NoResult
    <3>2. PICK r : r.code = 200 /\ V!Finish(c, r) BY <2>4, <3>1, Zenon
    <3> QED BY <2>2, <3>2
  <2>5. ASSUME NEW x, V!Finish(c, [V!Code(200) EXCEPT !.ver = x]) PROVE Shows(c)
    <3>1. [V!Code(200) EXCEPT !.ver = x].code = 200 BY DEF V!Code, V!NoResult
    <3>2. PICK r : r.code = 200 /\ V!Finish(c, r) BY <2>5, <3>1, Zenon
    <3> QED BY <2>2, <3>2
  <2>6. CASE V!GetRows(c)
    <3>1. PICK x : \/ V!Finish(c, [V!Code(200) EXCEPT !.map = x])
                   \/ V!Finish(c, V!Code(500))
      BY <2>6 DEF V!GetRows
    <3> QED BY <2>3, <2>4, <3>1
  <2>7. CASE V!PutVersion(c)
    <3>1. PICK x : \/ V!Finish(c, [V!Code(200) EXCEPT !.ver = x])
                   \/ V!Finish(c, V!Code(500))
      BY <2>7 DEF V!PutVersion
    <3> QED BY <2>3, <2>5, <3>1
  <2> QED BY <1>7, <2>6, <2>7
<1>8. ASSUME V!PutUpsert(c) PROVE Shows(c)
  <2>1. vrq'[c].st = "written" /\ vrq[c].st = "looked"
    BY <1>1, <1>8 DEF V!PutUpsert, V!Handling, V!RequestStates
  <2> QED BY <2>1 DEF Shows
<1>9. ASSUME V!DeleteRow(c) PROVE Shows(c)
  <2>1. PICK n : /\ n = IF secrets[vrq[c].id] = None THEN 404 ELSE 204
                 /\ V!Finish(c, V!Code(n))
    BY <1>9 DEF V!DeleteRow
  <2>2. vrq'[c].st = "done" /\ vrq'[c].res.code = n /\ vrq[c].st = "looked"
    BY <1>3, <1>9, <2>1, CodeOf DEF V!DeleteRow, V!Handling
  <2>3. IF secrets[vrq[c].id] = None THEN Readable' = Readable
                                     ELSE Readable' # Readable
    BY <1>9, DeleteShows
  <2> QED BY <2>1, <2>2, <2>3 DEF Shows
<1>10. ASSUME V!HandlerFails(c) PROVE Shows(c)
  <2>1. V!Finish(c, V!Code(500)) /\ Readable' = Readable
    BY <1>2, <1>10 DEF V!HandlerFails, V!database
  <2>2. vrq'[c].st = "done" /\ vrq'[c].res.code = 500 BY <1>3, <2>1, CodeOf
  <2> QED BY <2>1, <2>2 DEF Shows
<1> QED BY <1>4, <1>5, <1>6, <1>7, <1>8, <1>9, <1>10 DEF StoreMove, V!Handler

\* Every other step shows nothing.
LEMMA OthersInvisible ==
  ASSUME V!Inv, V!Inv', [Next]_vars, \A c \in Slots : ~HandlerStep(c)
  PROVE  Readable' = Readable
<1>1. ASSUME UNCHANGED <<meta, projects, secrets>> PROVE Readable' = Readable
  BY <1>1, ViewKept, ReadableParts
<1>2. CASE UNCHANGED vars \/ Tick
  BY <1>1, <1>2 DEF vars, storeVars, Tick, A!Tick
<1>3. ASSUME TokenCommit, UNCHANGED projects PROVE Readable' = Readable
  BY <1>1, <1>3 DEF TokenCommit, V!CliTokenCommit, V!database, storeVars
<1>4. CASE Cli
  BY <1>3, <1>4 DEF Cli, A!Cli, A!CliTokenCreate, A!CliTokenRevoke
<1>5. ASSUME NEW p \in Procs, Process(p) PROVE Readable' = Readable
  <2>1. V!Operator \/ V!ServeStep(p) \/ V!RekeyStep(p)
    BY <1>5 DEF Process, V!Operator, V!ServeStep
  <2> QED BY <2>1, ProcessesInvisible
<1>6. ASSUME NEW p \in Procs, V!Crash(p) PROVE Readable' = Readable
  BY <1>1, <1>6 DEF V!Crash, V!database
<1>7. ASSUME NEW c \in Slots, Arrive(c) \/ Middleware(c) \/ DatabaseFails(c)
      PROVE  Readable' = Readable
  <2>1. UNCHANGED storeVars BY <1>7 DEF Arrive, Middleware, DatabaseFails
  <2>2. UNCHANGED projects
    BY <1>7 DEF Arrive, Middleware, DatabaseFails, A!Arrive, A!ResolveName,
       A!Authenticate, A!HandleListProjects, A!HandleTokenList, A!HandleOpen,
       A!HandleRefuse, A!Record, A!Reply, A!HangUp, A!DatabaseFails
  <2> QED BY <1>1, <2>1, <2>2 DEF storeVars
<1>8. ASSUME NEW c \in Slots, Enter(c) \/ Gone(c) PROVE Readable' = Readable
  BY <1>1, <1>8 DEF Enter, Gone, V!Send, V!Unreachable, V!database
<1>9. ASSUME NEW c \in Slots, TokenHandler(c) PROVE Readable' = Readable
  BY <1>3, <1>9 DEF TokenHandler, A!HandleTokenCreate, A!HandleTokenRevoke
<1> QED BY <1>2, <1>4, <1>5, <1>6, <1>7, <1>8, <1>9 DEF Next, Crash, TtlOverflow

\* A step that shows is a handler's, for a request that may make it.
LEMMA ShownIsAuthorized ==
  ASSUME Halves, [Next]_vars, Readable' # Readable
  PROVE  \E c \in Slots : /\ vrq'[c] # vrq[c]
                          /\ ~arq[c].dead
                          /\ arq[c].tok \in A!Issued
                          /\ tokens[arq[c].tok].scope \in {None, vrq[c].id[1]}
<1>1. V!Inv /\ V!Inv' /\ AP!Inv BY HalvesStep DEF Halves
<1>2. PICK c \in Slots : HandlerStep(c) BY <1>1, OthersInvisible
<1>3. /\ A!Accepted(c, A!ProjectOps) /\ vrq[c].id[1] = arq[c].on
  BY <1>1, <1>2, HandlerMoves DEF Halves
<1>4. vrq'[c] # vrq[c]
  BY <1>1, <1>2, HandlerShows DEF HandlerStep, StoreMove, Shows
<1>5. /\ ~arq[c].dead /\ arq[c].tok \in A!Issued
      /\ arq[c].auth.scope = tokens[arq[c].tok].scope
  BY <1>1, <1>3, AccessFacts DEF A!Accepted
<1>6. arq[c].auth.scope \in {None, arq[c].on}
  BY <1>3 DEF A!Accepted, A!Refusal, A!Permitted, A!FlawCode, A!ProjectOps
<1> QED BY <1>3, <1>4, <1>5, <1>6

\* The store that clients can read changes only for a request whose token was
\* live when it arrived and may touch that project; no rekey, restart, crash,
\* token command or refused request changes it (auth.rs, handlers.rs,
\* crypto_state.rs).
THEOREM OnlyAuthorizedWrites == Spec => WritesAuthorized
<1>1. Halves /\ [Next]_vars =>
        [Readable' # Readable =>
           \E c \in Slots :
             /\ vrq'[c] # vrq[c]
             /\ ~arq[c].dead
             /\ arq[c].tok \in A!Issued
             /\ tokens[arq[c].tok].scope \in {None, vrq[c].id[1]}]_vars
  BY ShownIsAuthorized
<1> QED BY <1>1, HalvesAlways, PTL DEF Spec, WritesAuthorized

-----------------------------------------------------------------------------
(***************************************************************************)
(* The log and the store                                                   *)
(***************************************************************************)

\* The status code is true of request n: see AuditTruthful.
Truthful(n, code) ==
  /\ code \in {400, 401, 403, 404, 409, 413} => n \notin changed
  /\ code \in {201, 204} => n \in changed

\* A request has changed nothing before its handler's write, and what it is to be
\* answered is true.
Settled(c) ==
  /\ arq[c].st \in {"arrived", "resolved", "authed"} /\ vrq[c].st # "written"
       => arq[c].n \notin changed
  /\ arq[c].st = "handled" => Truthful(arq[c].n, arq[c].code)

\* The inductive invariant behind AuditTruthful.
Inv == /\ Halves
       /\ changed \subseteq 1..sent
       /\ \A c \in Slots : Settled(c)
       /\ \A e \in log : Truthful(e.n, e.status)

\* It holds at the start.
LEMMA InitInv == Init => Inv
<1> SUFFICES ASSUME Init PROVE Inv OBVIOUS
<1>1. changed = {} /\ log = {} BY DEF Init, A!Init
<1>2. \A c \in Slots : arq[c].st = "free"
  BY DEF Init, A!Init, A!FreeSlot
<1> QED BY <1>1, <1>2, HalvesInit DEF Inv, Settled

\* A step that changes nothing for clients, and no status that waits for its
\* record, leaves the rest of the invariant alone.
LEMMA QuietStep ==
  ASSUME Inv, Halves', UNCHANGED <<changed, log, sent>>,
         \A d \in Slots : \/ arq'[d].st \in {"free", "done"}
                          \/ /\ arq'[d] = arq[d]
                             /\ vrq[d].st = "written" => vrq'[d].st = "written"
  PROVE  Inv'
<1>1. ASSUME NEW d \in Slots PROVE Settled(d)'
  <2>1. Settled(d) BY DEF Inv
  <2> QED BY <2>1 DEF Settled, Truthful
<1> QED BY <1>1 DEF Inv, Truthful

\* A step of one request outside the handlers that change something.
LEMMA RequestQuiet ==
  ASSUME Inv, Halves', UNCHANGED changed, sent' \in {sent, sent + 1},
         NEW c \in Slots, Settled(c)',
         \A d \in Slots \ {c} : arq'[d] = arq[d] /\ vrq'[d] = vrq[d],
         \A e \in log' : e \in log \/ Truthful(e.n, e.status)
  PROVE  Inv'
<1>1. ASSUME NEW d \in Slots, d # c PROVE Settled(d)'
  <2>1. Settled(d) BY DEF Inv
  <2> QED BY <1>1, <2>1 DEF Settled, Truthful
<1>2. \A e \in log' : Truthful(e.n, e.status)' BY DEF Inv, Truthful
<1>3. sent \in Nat BY AccessFacts DEF Inv, Halves
<1>4. changed' \subseteq 1..sent' BY <1>3 DEF Inv
<1> QED BY <1>1, <1>2, <1>4 DEF Inv

\* A step of one handler that may change something: the number that it enters is
\* no other request's and in no record.
LEMMA RequestChanges ==
  ASSUME Inv, Halves', UNCHANGED <<log, sent>>,
         NEW c \in Slots, Settled(c)', arq[c].st = "authed",
         changed' \in {changed, changed \cup {arq[c].n}},
         \A d \in Slots \ {c} : arq'[d] = arq[d] /\ vrq'[d] = vrq[d]
  PROVE  Inv'
<1>1. AP!Inv BY DEF Inv, Halves
<1>2. arq[c].n \in 1..sent /\ \A e \in log : e.n # arq[c].n
  BY <1>1, AccessFacts
<1>3. ASSUME NEW d \in Slots, d # c PROVE Settled(d)'
  <2>1. Settled(d) BY DEF Inv
  <2>2. arq[d].st # "free" => arq[d].n # arq[c].n
    BY <1>1, <1>3, AccessFacts
  <2> QED BY <1>3, <2>1, <2>2 DEF Settled, Truthful
<1>4. \A e \in log' : Truthful(e.n, e.status)' BY <1>2 DEF Inv, Truthful
<1>5. changed' \subseteq 1..sent' BY <1>2 DEF Inv
<1> QED BY <1>3, <1>4, <1>5 DEF Inv

\* A request that is answered before its handler writes has changed nothing.
LEMMA AnsweredEarly ==
  ASSUME AP!Inv, NEW c \in Slots, Settled(c), UNCHANGED <<changed, vrq>>, ~InHandler(c),
         arq[c].st \in {"resolved", "authed"},
         NEW code, code \notin {201, 204},
         arq'[c].st = "handled", arq'[c].n = arq[c].n, arq'[c].code = code
  PROVE  Settled(c)'
BY DEF Settled, Truthful, InHandler

\* What Handled does to the request.
LEMMA HandledFields ==
  ASSUME AP!Inv, NEW c \in Slots, NEW code, A!Handled(c, code)
  PROVE  arq'[c].st = "handled" /\ arq'[c].n = arq[c].n /\ arq'[c].code = code
<1>1. arq \in [Slots -> A!RequestStates] BY AccessFacts
<1> QED BY <1>1 DEF A!Handled, A!RequestStates

\* The status of a refusal is none of a success.
LEMMA RefusalStatus ==
  ASSUME NEW r
  PROVE  A!Refusal(r) \notin {201, 204}
BY DEF A!Refusal, A!FlawCode

\* The steps of the middleware, the extractor and the handlers that only look.
LEMMA MiddlewareInv ==
  ASSUME Inv, [Next]_vars, NEW c \in Slots, Middleware(c) \/ DatabaseFails(c)
  PROVE  Inv'
<1>1. AP!Inv /\ Link(c) /\ Settled(c) /\ Halves' BY HalvesStep DEF Inv, Halves
<1>2. arq \in [Slots -> A!RequestStates] BY <1>1, AccessFacts
<1>3. ~InHandler(c) /\ vrq' = vrq /\ \A d \in Slots \ {c} : arq'[d] = arq[d]
  BY <1>1, OutsideHandler, OutsideOthers
<1>4. UNCHANGED <<changed, sent>>
  BY DEF Middleware, DatabaseFails, A!ResolveName, A!Authenticate,
     A!HandleListProjects, A!HandleTokenList, A!HandleOpen, A!HandleRefuse, A!Record,
     A!Reply, A!HangUp, A!DatabaseFails
<1>5. ASSUME Settled(c)', log' = log PROVE Inv'
  BY <1>1, <1>3, <1>4, <1>5, RequestQuiet
<1>6. ASSUME NEW code, A!Handled(c, code), code \notin {201, 204}, log' = log,
             arq[c].st \in {"resolved", "authed"}
      PROVE  Inv'
  <2>1. arq'[c].st = "handled" /\ arq'[c].n = arq[c].n /\ arq'[c].code = code
    BY <1>1, <1>6, HandledFields
  <2>2. Settled(c)' BY <1>1, <1>3, <1>4, <1>6, <2>1, AnsweredEarly
  <2> QED BY <1>5, <1>6, <2>2
<1>7. CASE A!ResolveName(c)
  <2>1. /\ arq'[c].st = "resolved" /\ arq'[c].n = arq[c].n /\ arq[c].st = "arrived"
        /\ log' = log
    BY <1>2, <1>7 DEF A!ResolveName, A!RequestStates
  <2>2. Settled(c)' BY <1>1, <1>3, <1>4, <2>1 DEF Settled, Truthful, InHandler
  <2> QED BY <1>5, <2>1, <2>2
<1>8. CASE A!Authenticate(c)
  <2>1. arq[c].st = "resolved" /\ log' = log BY <1>8 DEF A!Authenticate
  <2>2. CASE A!Handled(c, 401) BY <1>6, <2>1, <2>2
  <2>3. CASE ~A!Handled(c, 401)
    <3>1. PICK who : arq' = [arq EXCEPT ![c].st = "authed", ![c].auth = who]
      BY <1>8, <2>3 DEF A!Authenticate
    <3>2. arq'[c].st = "authed" /\ arq'[c].n = arq[c].n
      BY <1>2, <3>1 DEF A!RequestStates
    <3>3. Settled(c)' BY <1>1, <1>3, <1>4, <2>1, <3>2 DEF Settled, Truthful, InHandler
    <3> QED BY <1>5, <2>1, <3>3
  <2> QED BY <2>2, <2>3
<1>9. CASE A!HandleOpen(c)
  <2>1. PICK code \in {200, 404} : A!Handled(c, code) BY <1>9 DEF A!HandleOpen
  <2> QED BY <1>6, <1>9, <2>1 DEF A!HandleOpen
<1>10. CASE A!HandleRefuse(c)
  BY <1>6, <1>10, RefusalStatus DEF A!HandleRefuse
<1>11. CASE A!HandleTokenList(c)
  BY <1>6, <1>11 DEF A!HandleTokenList, A!Accepted
<1>12. CASE A!HandleListProjects(c)
  <2>1. PICK x : arq' = [arq EXCEPT ![c].st = "handled", ![c].code = 200, ![c].seen = x]
    BY <1>12 DEF A!HandleListProjects
  <2>2. arq'[c].st = "handled" /\ arq'[c].n = arq[c].n /\ arq'[c].code = 200
    BY <1>2, <2>1 DEF A!RequestStates
  <2>3. arq[c].st = "authed" /\ log' = log
    BY <1>12 DEF A!HandleListProjects, A!Accepted
  <2>4. Settled(c)' BY <1>1, <1>3, <1>4, <2>2, <2>3, AnsweredEarly
  <2> QED BY <1>5, <2>3, <2>4
<1>13. CASE A!Record(c)
  <2>1. /\ arq[c].st = "handled" /\ arq'[c].st = "recorded"
        /\ \A e \in log' : e \in log \/ (e.n = arq[c].n /\ e.status = arq[c].code)
    BY <1>2, <1>13 DEF A!Record, A!RequestStates
  <2>2. Truthful(arq[c].n, arq[c].code) BY <1>1, <2>1 DEF Settled
  <2>3. Settled(c)' BY <2>1 DEF Settled
  <2>4. \A e \in log' : e \in log \/ Truthful(e.n, e.status) BY <2>1, <2>2
  <2> QED BY <1>1, <1>3, <1>4, <2>3, <2>4, RequestQuiet
<1>14. CASE A!Reply(c) \/ A!HangUp(c)
  <2>1. PICK code : arq' = [arq EXCEPT ![c] = A!Closed(arq[c], code)]
    BY <1>14 DEF A!Reply, A!HangUp
  <2>2. arq'[c].st = "done" BY <1>2, <2>1 DEF A!Closed, A!FreeSlot
  <2>3. Settled(c)' BY <2>2 DEF Settled
  <2> QED BY <1>5, <1>14, <2>3 DEF A!Reply, A!HangUp
<1>15. CASE A!DatabaseFails(c)
  BY <1>6, <1>15 DEF A!DatabaseFails, A!Accepted
<1> QED BY <1>7, <1>8, <1>9, <1>10, <1>11, <1>12, <1>13, <1>14, <1>15
           DEF Middleware, DatabaseFails

\* A request that arrives has a number that no request had.
LEMMA ArriveInv ==
  ASSUME Inv, [Next]_vars, NEW c \in Slots, Arrive(c)
  PROVE  Inv'
<1>1. AP!Inv /\ Link(c) /\ Halves' BY HalvesStep DEF Inv, Halves
<1>2. arq \in [Slots -> A!RequestStates] /\ sent \in Nat BY <1>1, AccessFacts
<1>3. vrq' = vrq /\ \A d \in Slots \ {c} : arq'[d] = arq[d] BY <1>1, OutsideOthers
<1>4. UNCHANGED <<changed, log>> /\ sent' = sent + 1 BY DEF Arrive, A!Arrive
<1>5. arq'[c].st = "arrived" /\ arq'[c].n = sent + 1
  BY <1>2 DEF Arrive, A!Arrive, A!FreeSlot
<1>6. sent + 1 \notin changed BY <1>2 DEF Inv
<1>7. Settled(c)' BY <1>4, <1>5, <1>6 DEF Settled
<1> QED BY <1>1, <1>3, <1>4, <1>7, RequestQuiet

\* What Changing enters.
LEMMA ChangingEnters ==
  ASSUME NEW c \in Slots, Changing(c)
  PROVE  /\ changed' \in {changed, changed \cup {arq[c].n}}
         /\ Readable' = Readable /\ tokens' = tokens => changed' = changed
         /\ Readable' # Readable \/ tokens' # tokens => arq[c].n \in changed'
BY DEF Changing

\* A token that is created shows in the table.
LEMMA TokenHandlerInv ==
  ASSUME Inv, [Next]_vars, NEW c \in Slots, TokenHandler(c)
  PROVE  Inv'
<1>1. AP!Inv /\ Link(c) /\ Halves' BY HalvesStep DEF Inv, Halves
<1>2. vrq' = vrq /\ \A d \in Slots \ {c} : arq'[d] = arq[d] BY <1>1, OutsideOthers
<1>3. /\ UNCHANGED <<log, sent>> /\ arq[c].st = "authed" /\ Changing(c)
  BY DEF TokenHandler, A!HandleTokenCreate, A!HandleTokenRevoke, A!Accepted
<1>4. ASSUME NEW t \in Tokens, A!HandleTokenCreate(c, t) PROVE Settled(c)'
  <2>1. /\ A!Handled(c, 201) /\ tokens[t] = None
        /\ tokens' = [tokens EXCEPT ![t] = A!NewRow(arq[c].on, arq[c].grant, arq[c].ttl)]
    BY <1>4 DEF A!HandleTokenCreate, A!insert_token
  <2>2. tokens \in [Tokens -> A!Rows \cup {None}] /\ arq[c] \in A!RequestStates
        /\ arq[c].on \in Names /\ now \in Nat
    BY <1>1, <1>3, <1>4, AccessFacts DEF A!HandleTokenCreate, A!Accepted, AP!Inv, AP!TypeOK
  <2>3. A!NewRow(arq[c].on, arq[c].grant, arq[c].ttl) \in A!Rows
    <3>1. /\ arq[c].grant \in Projects \cup {None}
          /\ (IF arq[c].ttl = None THEN None ELSE now + arq[c].ttl) \in Nat \cup {None}
      <4>1. arq[c].grant \in Projects \cup {None} /\ arq[c].ttl \in TTLs \cup {None}
        BY <2>2 DEF A!RequestStates
      <4>2. arq[c].ttl # None => arq[c].ttl \in Nat BY <4>1, AccessAssumption
      <4> QED BY <2>2, <4>1, <4>2
    <3> QED BY <2>2, <3>1, Zenon DEF A!NewRow, A!Rows
  <2>4. tokens' # tokens BY <2>1, <2>2, <2>3, AccessAssumption
  <2>5. arq[c].n \in changed' BY <1>3, <2>4, ChangingEnters
  <2>6. arq'[c].st = "handled" /\ arq'[c].n = arq[c].n /\ arq'[c].code = 201
    BY <1>1, <2>1, HandledFields
  <2> QED BY <2>5, <2>6 DEF Settled, Truthful
<1>5. ASSUME A!HandleTokenRevoke(c) PROVE Settled(c)'
  <2>1. arq'[c].st = "handled" /\ arq'[c].code = 200
    BY <1>1, <1>5, HandledFields DEF A!HandleTokenRevoke
  <2> QED BY <2>1 DEF Settled, Truthful
<1>6. Settled(c)' BY <1>4, <1>5 DEF TokenHandler
<1> QED BY <1>1, <1>2, <1>3, <1>6, ChangingEnters, RequestChanges

\* A project handler's status is true, and before its write it enters nothing.
LEMMA HandlerStepInv ==
  ASSUME Inv, [Next]_vars, NEW c \in Slots, HandlerStep(c)
  PROVE  Inv'
<1>1. V!Inv /\ AP!Inv /\ Link(c) /\ Settled(c) /\ Halves'
  BY HalvesStep DEF Inv, Halves
<1>2. arq \in [Slots -> A!RequestStates] BY <1>1, AccessFacts
<1>3. Moves(c) /\ Shows(c) /\ arq[c].st = "authed" /\ Changing(c)
  BY <1>1, HandlerMoves, HandlerShows DEF HandlerStep, StoreMove
<1>4. /\ UNCHANGED <<tokens, log, sent>>
      /\ \A d \in Slots \ {c} : arq'[d] = arq[d] /\ vrq'[d] = vrq[d]
  BY <1>2, <1>3 DEF HandlerStep, Respond, Moves
<1>5. vrq[c].st # "written" => arq[c].n \notin changed
  BY <1>1, <1>3 DEF Settled
<1>6. CASE vrq'[c].st = "done"
  <2>1. PICK code : code = vrq'[c].res.code OBVIOUS
  <2>2. Respond(c, code) BY <1>6, <2>1 DEF HandlerStep
  <2>3. arq'[c].st = "handled" /\ arq'[c].n = arq[c].n /\ arq'[c].code = code
    <3>1. PICK x : arq' = [arq EXCEPT ![c].st = "handled", ![c].code = code,
                                      ![c].seen = x]
      BY <2>2 DEF Respond
    <3> QED BY <1>2, <3>1 DEF A!RequestStates
  <2>4. code \in {200, 201, 204, 404, 409, 500}
    BY <1>3, <1>6, <2>1 DEF Moves, GoesOn, V!InHandler, Outcome
  <2>5. ASSUME code \in {404, 409} PROVE arq[c].n \notin changed'
    BY <1>3, <1>4, <1>5, <1>6, <2>1, <2>5, ChangingEnters DEF Shows
  <2>6. ASSUME code \in {201, 204} PROVE arq[c].n \in changed'
    BY <1>3, <1>6, <2>1, <2>6, ChangingEnters DEF Shows
  <2>7. Settled(c)' BY <2>3, <2>4, <2>5, <2>6 DEF Settled, Truthful
  <2> QED BY <1>1, <1>3, <1>4, <2>7, ChangingEnters, RequestChanges
<1>7. CASE vrq'[c].st # "done"
  <2>1. arq' = arq BY <1>7 DEF HandlerStep
  <2>2. CASE vrq'[c].st = "written"
    <3>1. Settled(c)' BY <1>3, <2>1, <2>2 DEF Settled
    <3> QED BY <1>1, <1>3, <1>4, <3>1, ChangingEnters, RequestChanges
  <2>3. CASE vrq'[c].st # "written"
    <3>1. changed' = changed /\ vrq[c].st # "written"
      BY <1>3, <1>4, <1>7, <2>3, ChangingEnters DEF Shows
    <3>2. Settled(c)' BY <1>3, <1>5, <2>1, <3>1 DEF Settled
    <3> QED BY <1>1, <1>3, <1>4, <3>2, ChangingEnters, RequestChanges
  <2> QED BY <2>2, <2>3
<1> QED BY <1>6, <1>7

\* A server that dies takes its requests along; a rekey that dies takes none.
LEMMA CrashInv ==
  ASSUME Inv, [Next]_vars, NEW p \in Procs, V!Crash(p), UNCHANGED changed,
         \/ \E S : A!ProcessEnds(S)
         \/ ~Serving(p) /\ UNCHANGED accessVars
  PROVE  Inv'
<1>1. V!Inv /\ Halves' BY HalvesStep DEF Inv, Halves
<1>2. UNCHANGED <<log, sent>> BY DEF A!ProcessEnds, accessVars
<1>3. ASSUME NEW S, A!ProcessEnds(S), NEW d \in Slots
      PROVE  arq'[d].st \in {"free", "done"}
  BY <1>3 DEF A!ProcessEnds, A!Closed, A!FreeSlot
<1>4. ASSUME ~Serving(p), UNCHANGED accessVars, NEW d \in Slots
      PROVE  arq'[d] = arq[d] /\ vrq'[d] = vrq[d]
  <2>1. V!RequestOK(d) BY <1>1 DEF V!Inv
  <2>2. ~(vrq[d].st \in V!InHandler /\ vrq[d].by = p)
    BY <1>4, <2>1 DEF V!RequestOK, Serving
  <2> QED BY <1>4, <2>2 DEF V!Crash, accessVars
<1> QED BY <1>1, <1>2, <1>3, <1>4, QuietStep

\* The invariant is kept by every step.
LEMMA NextInv == Inv /\ [Next]_vars => Inv'
<1> SUFFICES ASSUME Inv, [Next]_vars PROVE Inv' OBVIOUS
<1>1. V!Inv /\ Halves' BY HalvesStep DEF Inv, Halves
<1>2. ASSUME UNCHANGED <<vrq, arq, changed, log, sent>> PROVE Inv'
  BY <1>1, <1>2, QuietStep
<1>3. CASE UNCHANGED vars \/ Cli \/ Tick
  <2>1. UNCHANGED <<vrq, arq, changed, log, sent>>
    BY <1>3 DEF vars, storeVars, accessVars, Cli, Tick, TokenCommit, V!CliTokenCommit,
       A!Cli, A!CliTokenCreate, A!CliTokenRevoke, A!Tick
  <2> QED BY <1>2, <2>1
<1>4. ASSUME NEW p \in Procs, Process(p) PROVE Inv'
  <2>1. UNCHANGED <<vrq, arq, changed, log, sent>>
    BY <1>4 DEF Process, V!ServeReadSalt, V!ServeVerify, V!ServeInitialize,
       V!ServeBind, V!ServeStop, V!ServeLock, V!RekeyLock, V!Answer,
       V!ServePassphrase, V!RekeyPassphrases, V!NoPassphrase, V!RekeyStep,
       V!RekeyReadSalt, V!RekeySelect, V!RekeyVerify, V!RekeyRow, V!RekeyCommit,
       V!RekeyAborts, accessVars
  <2> QED BY <1>2, <2>1
<1>5. ASSUME NEW p \in Procs, Crash(p) PROVE Inv'
  BY <1>5, CrashInv DEF Crash
<1>6. ASSUME NEW c \in Slots, TtlOverflow(c) PROVE Inv'
  <2>1. PICK p \in Procs : V!Crash(p) BY <1>6 DEF TtlOverflow
  <2> QED BY <1>6, <2>1, CrashInv DEF TtlOverflow, A!TtlOverflow
<1>7. ASSUME NEW c \in Slots, Enter(c) \/ Gone(c) PROVE Inv'
  <2>1. UNCHANGED <<arq, changed, log, sent>> BY <1>7 DEF Enter, Gone, accessVars
  <2>2. vrq \in [Slots -> V!RequestStates] BY <1>1 DEF V!Inv, V!TypeOK
  <2>3. /\ vrq[c].st # "written"
        /\ \A d \in Slots \ {c} : vrq'[d] = vrq[d]
    BY <1>7, <2>2 DEF Enter, Gone, V!Send, V!Unreachable, V!Answered
  <2> QED BY <1>1, <2>1, <2>3, QuietStep
<1>8. ASSUME NEW c \in Slots, Arrive(c) PROVE Inv' BY <1>8, ArriveInv
<1>9. ASSUME NEW c \in Slots, Middleware(c) \/ DatabaseFails(c) PROVE Inv'
  BY <1>9, MiddlewareInv
<1>10. ASSUME NEW c \in Slots, HandlerStep(c) PROVE Inv' BY <1>10, HandlerStepInv
<1>11. ASSUME NEW c \in Slots, TokenHandler(c) PROVE Inv' BY <1>11, TokenHandlerInv
<1> QED BY <1>3, <1>4, <1>5, <1>6, <1>7, <1>8, <1>9, <1>10, <1>11 DEF Next

\* The invariant of the composed server holds always.
THEOREM Invariance == Spec => []Inv
  BY InitInv, NextInv, PTL DEF Spec

\* The log tells the truth about the store: what it records as refused, missed or
\* in conflict changed nothing, and what it records as created or deleted was done
\* (audit.rs, handlers.rs).
THEOREM LogTruthful == Spec => []AuditTruthful
<1>1. Inv => AuditTruthful BY DEF Inv, Truthful, AuditTruthful
<1> QED BY <1>1, Invariance, PTL
=============================================================================
