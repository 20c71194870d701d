------------------------------ MODULE Service ------------------------------
(***************************************************************************)
(* The whole server: requests pass through authentication, authorization   *)
(* and the audit log (module Access) into the handlers of the encrypted    *)
(* store (module Vault), on one database and one connection mutex, while   *)
(* processes start, stop, rekey and crash and token commands run beside    *)
(* them.                                                                   *)
(*                                                                         *)
(* Slot c is one request in both modules: arq[c] is its way through the    *)
(* middleware and vrq[c] its handler.  The handler's result decides what   *)
(* is answered and recorded; that Access's short account of the handlers   *)
(* ("they succeed, or miss") is a true one is checked here.                *)
(***************************************************************************)
EXTENDS Naturals, FiniteSets

CONSTANTS Projects, SecretKeys, Values, Passphrases, Salts, Procs, Slots, None,
          MaxVersion,
          Tokens, Names, ClientOps, Flaws, Faults, TTLs,
          MaxDate, MaxTime, MaxRequests

VARIABLES meta, projects, secrets, lock, proc, vrq,
          tokens, now, arq, sent, log, unlogged, withdrawn,
          changed     \* history: the requests that changed the store

V == INSTANCE VaultProps WITH rq <- vrq
A == INSTANCE Access WITH rq <- arq

\* What the two modules assume of the constants (see there).
ASSUME VaultAssumption ==
  /\ MaxVersion \in Nat
  /\ None \notin Projects \cup SecretKeys \cup Values \cup Passphrases
  /\ None \notin Salts \cup Procs \cup V!MasterKeys \cup V!Ids \cup V!Rows
  /\ None \notin V!Entries

ASSUME AccessAssumption ==
  /\ TTLs \subseteq Nat
  /\ MaxDate \in Nat /\ MaxTime \in Nat /\ MaxRequests \in Nat
  /\ Faults \in BOOLEAN
  /\ None \notin Tokens \cup Names \cup Projects \cup Nat \cup A!Rows
  /\ ClientOps \subseteq A!Ops
  /\ Flaws \subseteq {"malformed", "too_large", "bad_name", "bad_key",
                       "ttl_conflict"}

storeVars == <<meta, secrets, lock, proc, vrq>>
accessVars == <<tokens, now, arq, sent, log, unlogged, withdrawn>>
vars == <<projects, storeVars, accessVars, changed>>

Init == V!Init /\ A!Init /\ changed = {}

-----------------------------------------------------------------------------
Serving(p) == proc[p].pc = "serving"
Up == \E p \in Procs : Serving(p)
MutexFree == \E p \in Procs : Serving(p) /\ V!MutexFree(p)

InFlight(c) == arq[c].st \notin {"free", "done"}
InHandler(c) == vrq[c].st \notin {"free", "done"}

\* What a client can read of the store.
Readable == <<projects, V!StoreView>>
Changing(c) == changed' = IF Readable' = Readable /\ tokens' = tokens
                            THEN changed ELSE changed \cup {arq[c].n}

-----------------------------------------------------------------------------
(***************************************************************************)
(* Requests                                                                *)
(***************************************************************************)
Arrive(c) ==
  /\ Up
  /\ ~InHandler(c)
  /\ A!Arrive(c)
  /\ UNCHANGED <<storeVars, changed>>

\* Steps outside the project handlers; the first line takes the mutex.
Middleware(c) ==
  /\ \/ MutexFree /\ (A!ResolveName(c) \/ A!Authenticate(c)
                       \/ A!HandleListProjects(c) \/ A!HandleTokenList(c))
     \/ A!HandleOpen(c) \/ A!HandleRefuse(c) \/ A!Record(c) \/ A!Reply(c)
     \/ ~InHandler(c) /\ A!HangUp(c)
  /\ UNCHANGED <<storeVars, changed>>

HandlerRequests(c) ==
  {r \in V!Requests : r.op = arq[c].op /\ r.id[1] = arq[c].on}

\* Mutant: the handler starts before ensure_scope.
Enter_BeforeScope(c) ==
  /\ arq[c].st = "authed" /\ arq[c].op \in A!ProjectOps
  /\ \E r \in HandlerRequests(c) : V!Send(c, r)
  /\ UNCHANGED <<accessVars, changed>>

\* A request that passed every check goes on to the database.
Enter(c) ==
  /\ A!Accepted(c, A!ProjectOps)
  /\ \E r \in HandlerRequests(c) : V!Send(c, r)
  /\ UNCHANGED <<accessVars, changed>>

\* Mutant: what the handler returns is taken for a success.
Respond_Ok(c, code) ==
  arq' = [arq EXCEPT ![c].st = "handled",
                     ![c].code = IF arq[c].op = "create" THEN 201 ELSE 200,
                     ![c].seen = IF code \in {409, 500} THEN {} ELSE {arq[c].on}]

\* The handler's status goes back through the middleware, with what it tells.
Respond(c, code) ==
  LET told == arq[c].op # "create" /\ arq[c].on \in projects /\ code # 500
  IN  arq' = [arq EXCEPT ![c].st = "handled", ![c].code = code,
                         ![c].seen = IF told THEN {arq[c].on} ELSE {}]

HandlerStep(c) ==
  /\ arq[c].st = "authed"
  /\ \/ \E p \in Procs : V!Lookup(c, p) \/ (Faults /\ V!LookupFails(c, p))
     \/ V!Handler(c)
     \/ Faults /\ V!HandlerFails(c)
  /\ IF vrq'[c].st = "done" THEN Respond(c, vrq'[c].res.code) ELSE UNCHANGED arq
  /\ UNCHANGED <<tokens, now, sent, log, unlogged, withdrawn>>
  /\ Changing(c)

\* The database fails under the extractor or under a handler of Access.
DatabaseFails(c) ==
  /\ MutexFree
  /\ arq[c].st = "resolved" \/ arq[c].op \notin A!ProjectOps
  /\ A!DatabaseFails(c)
  /\ UNCHANGED <<storeVars, changed>>

\* A commit to table tokens: it waits for a rekey that is writing and spoils
\* the snapshot of one that is not.
TokenCommit ==
  IF \E q \in Procs : proc[q].pc = "snapshot"
    THEN V!CliTokenCommit
    ELSE (\A q \in Procs : proc[q].pc # "rewriting") /\ UNCHANGED storeVars

TokenHandler(c) ==
  /\ MutexFree
  /\ TokenCommit
  /\ \/ \E t \in Tokens : A!HandleTokenCreate(c, t)
     \/ A!HandleTokenRevoke(c)
  /\ Changing(c)

-----------------------------------------------------------------------------
(***************************************************************************)
(* Processes, the CLI and time                                             *)
(***************************************************************************)
Cli == TokenCommit /\ A!Cli /\ UNCHANGED changed

\* A new server listens once the connections of the last one are gone.  ctrl-C
\* lets the requests in flight finish.
Process(p) ==
  /\ \/ V!ServeReadSalt(p) \/ V!ServeVerify(p)
     \/ \E s \in Salts : V!ServeInitialize(p, s)
     \/ (\A c \in Slots : ~InHandler(c)) /\ V!ServeBind(p)
     \/ (\A c \in Slots : ~InFlight(c)) /\ V!ServeStop(p)
     \/ V!ServeLock(p) \/ V!RekeyLock(p) \/ V!Answer(p) \/ V!RekeyStep(p)
  /\ UNCHANGED <<accessVars, changed>>

Crash(p) ==
  /\ V!Crash(p)
  /\ IF Serving(p) THEN A!ProcessEnds({}) ELSE UNCHANGED accessVars
  /\ UNCHANGED changed

\* The panic of create_token takes the process with it.
TtlOverflow(c) ==
  /\ A!TtlOverflow(c)
  /\ \E p \in Procs : Serving(p) /\ V!Crash(p)
  /\ UNCHANGED changed

\* A handler that was waiting for the mutex went with its process.
Gone(c) == V!Unreachable(c) /\ UNCHANGED <<accessVars, changed>>

Tick == A!Tick /\ UNCHANGED <<storeVars, changed>>

Next ==
  \/ Cli \/ Tick
  \/ \E p \in Procs : Process(p) \/ Crash(p)
  \/ \E c \in Slots : \/ Arrive(c) \/ Middleware(c) \/ Enter(c)
                      \/ HandlerStep(c) \/ TokenHandler(c)
                      \/ DatabaseFails(c) \/ TtlOverflow(c) \/ Gone(c)

Spec == Init /\ [][Next]_vars

-----------------------------------------------------------------------------
(***************************************************************************)
(* Properties                                                              *)
(***************************************************************************)

\* What the composed server does to tokens, requests and the log is what module
\* Access says: the handlers' statuses, which here come out of the encrypted
\* store, are the ones it allows, and so its properties hold of the whole.
\* This is A!Spec, with the cheaper disjunct of [A!Next]_(A!vars) first.
ImplementsAccess == A!Init /\ [][UNCHANGED A!vars \/ A!Next]_vars

\* A token that was dead when its request arrived gets nothing and does nothing,
\* also when another request, a CLI command or the clock kills it and the three
\* locks of the request wait for other handlers (auth.rs, repo.rs; see Access).
DeadOnArrival == A!DeadOnArrival

\* The store that clients can read changes only in the handler of a request
\* whose token was live when it arrived and may touch that project: no rekey,
\* restart, crash, token command or half-served request changes it, and
\* neither does a refused one (auth.rs, handlers.rs, crypto_state.rs).
WritesAuthorized == [][
  Readable' # Readable =>
    \E c \in Slots :
      /\ vrq'[c] # vrq[c]
      /\ ~arq[c].dead
      /\ arq[c].tok \in A!Issued
      /\ tokens[arq[c].tok].scope \in {None, vrq[c].id[1]}]_vars

\* The log tells the truth about the store: a request recorded as refused or
\* as a miss changed nothing, and one recorded as 201 or 204 did what it was
\* asked, however crashes, restarts and rekeys come between (audit.rs).
AuditTruthful ==
  \A e \in log :
    /\ e.status \in {400, 401, 403, 404, 409, 413} => e.n \notin changed
    /\ e.status \in {201, 204} => e.n \in changed
=============================================================================
