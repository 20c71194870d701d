------------------------------- MODULE Access -------------------------------
(***************************************************************************)
(* Who may do what on the secrets server, and what the audit log says of   *)
(* it: bearer tokens, their scopes, expiry and revocation, the steps of a  *)
(* request through the audit middleware, the AuthedToken extractor and the *)
(* handlers, and the token commands of the CLI, which work on the same     *)
(* table without the server.                                               *)
(*                                                                         *)
(* The connection mutex is taken and dropped three times per request: to   *)
(* resolve the name for the log, to authenticate and to handle.  Each is   *)
(* one step here, and other requests, the CLI and time come between them.  *)
(* What the project handlers do to secrets is in module Vault; here they   *)
(* succeed, or miss.                                                       *)
(***************************************************************************)
EXTENDS Naturals, FiniteSets

CONSTANTS Tokens,       \* token values; a token and its hash are one thing
          Names,        \* token names
          Projects,
          Slots,        \* concurrent requests
          None,
          ClientOps,    \* the operations that clients ask for
          Flaws,        \* what may be wrong with a request besides its token
          Faults,       \* whether the database and the log file may fail
          TTLs,         \* values of ttl_days
          MaxDate,      \* the last date the time crate can represent
          MaxTime,      \* bound on the clock
          MaxRequests   \* bound on the requests of a behaviour

ASSUME NumbersAssumption ==
  /\ TTLs \subseteq Nat
  /\ MaxDate \in Nat /\ MaxTime \in Nat /\ MaxRequests \in Nat

ASSUME FaultsAssumption == Faults \in BOOLEAN

ASSUME NoneAssumption == None \notin Tokens \cup Names \cup Projects \cup Nat

ASSUME RequestsAssumption ==
  ClientOps \subseteq {"create", "get", "put", "delete", "token_create",
                       "token_list", "token_revoke", "list_projects", "health",
                       "unmatched"}

ASSUME FlawsAssumption ==
  Flaws \subseteq {"malformed", "too_large", "bad_name", "bad_key",
                   "ttl_conflict"}

VARIABLES
  tokens,     \* table tokens: a row for every token issued, or None
  projects,   \* table projects
  now,        \* the clock
  rq,         \* rq[c] = the request in slot c
  sent,       \* requests sent so far; their numbers are 1..sent
  log,        \* the audit log
  unlogged,   \* requests whose audit record could not be written
  withdrawn   \* history: tokens whose name was given to a completed revoke

vars == <<tokens, projects, now, rq, sent, log, unlogged, withdrawn>>

Rows == [name : Names, scope : Projects \cup {None}, exp : Nat \cup {None},
         revoked : BOOLEAN]

ASSUME NoneIsNoRow == None \notin Rows

Issued == {t \in Tokens : tokens[t] # None}

-----------------------------------------------------------------------------
(***************************************************************************)
(* Requests                                                                *)
(***************************************************************************)
ProjectOps == {"create", "get", "put", "delete"}
TokenOps == {"token_create", "token_list", "token_revoke"}
OpenOps == {"health", "unmatched"}            \* no AuthedToken extractor
Ops == ProjectOps \cup TokenOps \cup OpenOps \cup {"list_projects"}

\* What a handler checks before, and after, it checks the token's scope.
EarlyFlaws(op) == CASE op \in {"create", "put"} -> {"malformed", "too_large",
                                                    "bad_name"}
                    [] op = "get" -> {"bad_name"}
                    [] op = "delete" -> {"bad_name", "bad_key"}
                    [] OTHER -> {}
LateFlaws(op) == CASE op = "put" -> {"bad_key"}
                   [] op = "token_create" -> {"malformed", "too_large",
                                              "bad_name", "ttl_conflict"}
                   [] op = "token_revoke" -> {"bad_name"}
                   [] OTHER -> {}
FlawCode(f) == IF f = "too_large" THEN 413 ELSE 400

HasBody == {"create", "put", "token_create"}

\* on: the project or the token name; grant, ttl: of the token asked for.
PlainRequests ==
  [op : ProjectOps, on : Projects, grant : {None}, ttl : {None}]
    \cup [op : {"token_create"}, on : Names, grant : Projects \cup {None},
          ttl : TTLs \cup {None}]
    \cup [op : {"token_revoke"}, on : Names, grant : {None}, ttl : {None}]
    \cup [op : OpenOps \cup {"token_list", "list_projects"}, on : {None},
          grant : {None}, ttl : {None}]

Statuses == {200, 201, 204, 400, 401, 403, 404, 409, 413, 500}
Lost == 0       \* the connection ended without an answer
Aborted == 1    \* the server process aborted in this request's handler

FreeSlot == [st |-> "free", n |-> 0, op |-> "health", on |-> None,
             grant |-> None, ttl |-> None, flaw |-> "none", tok |-> None,
             dead |-> FALSE, who |-> None, auth |-> None,
             code |-> Lost, seen |-> {}]

\* What is left of a request when its connection is done with it.
Closed(r, code) == [FreeSlot EXCEPT !.st = "done", !.n = r.n, !.op = r.op,
                                    !.tok = r.tok, !.dead = r.dead,
                                    !.code = code]

AuthedTokens == [name : Names, scope : Projects \cup {None}]

Stages == {"free", "arrived", "resolved", "authed", "handled", "recorded", "done"}

RequestStates ==
  [st : Stages,
   n : 0..MaxRequests, op : Ops, on : Projects \cup Names \cup {None},
   grant : Projects \cup {None}, ttl : TTLs \cup {None},
   flaw : {"none"} \cup Flaws,
   tok : Tokens \cup {None},           \* the bearer token, if it is one we issued
   dead : BOOLEAN,                     \* history: the token was dead on arrival
   who : Names \cup {None},            \* the name resolved for the log
   auth : AuthedTokens \cup {None},    \* the identity given to the handler
   code : Statuses \cup {Lost, Aborted},
   seen : SUBSET Projects]             \* the projects that the answer tells about

Entries == [n : 1..MaxRequests, who : Names \cup {None}, status : Statuses]

TypeOK ==
  /\ tokens \in [Tokens -> Rows \cup {None}]
  /\ projects \in SUBSET Projects
  /\ now \in 0..MaxTime
  /\ rq \in [Slots -> RequestStates]
  /\ sent \in 0..MaxRequests
  /\ log \in SUBSET Entries
  /\ unlogged \in SUBSET (1..MaxRequests)
  /\ withdrawn \in SUBSET Tokens

Init ==
  /\ tokens = [t \in Tokens |-> None]
  /\ projects = {}
  /\ now = 0
  /\ rq = [c \in Slots |-> FreeSlot]
  /\ sent = 0
  /\ log = {} /\ unlogged = {} /\ withdrawn = {}

-----------------------------------------------------------------------------
(***************************************************************************)
(* The token table                                                         *)
(***************************************************************************)

\* repo::authenticate: active and not expired at this very moment.
Expired(row) == row.exp # None /\ ~(row.exp > now)
\* Mutant: the expiry is not checked.
authenticate_NoExpiry(t) ==
  IF t # None /\ tokens[t] # None /\ ~tokens[t].revoked
    THEN [name |-> tokens[t].name, scope |-> tokens[t].scope]
    ELSE None

authenticate(t) ==
  IF t # None /\ tokens[t] # None /\ ~tokens[t].revoked /\ ~Expired(tokens[t])
    THEN [name |-> tokens[t].name, scope |-> tokens[t].scope]
    ELSE None

\* What the operator means by a dead token, whatever the table says.
Dead(t) == t = None \/ t \in withdrawn \/ Expired(tokens[t])

NewRow(name, scope, ttl) ==
  [name |-> name, scope |-> scope, revoked |-> FALSE,
   exp |-> IF ttl = None THEN None ELSE now + ttl]
Representable(ttl) == ttl # None => now + ttl <= MaxDate

\* generate_token: 32 random bytes, never seen before.
insert_token(t, row) == /\ tokens[t] = None
                        /\ tokens' = [tokens EXCEPT ![t] = row]

revoke_token(name) ==
  /\ tokens' = [t \in Tokens |-> IF t \in Issued /\ tokens[t].name = name
                                   THEN [tokens[t] EXCEPT !.revoked = TRUE]
                                   ELSE tokens[t]]
  /\ withdrawn' = withdrawn \cup {t \in Issued : tokens[t].name = name}

-----------------------------------------------------------------------------
(***************************************************************************)
(* The CLI on the server's host, and time                                  *)
(***************************************************************************)
CliTokenCreate(t, name, scope, ttl) ==
  /\ ttl # 0
  /\ Representable(ttl)
  /\ insert_token(t, NewRow(name, scope, ttl))
  /\ UNCHANGED <<projects, now, rq, sent, log, unlogged, withdrawn>>

CliTokenRevoke(name) ==
  /\ \E t \in Issued : tokens[t].name = name /\ ~tokens[t].revoked
  /\ revoke_token(name)
  /\ UNCHANGED <<projects, now, rq, sent, log, unlogged>>

Tick == /\ now < MaxTime
        /\ now' = now + 1
        /\ UNCHANGED <<tokens, projects, rq, sent, log, unlogged, withdrawn>>

-----------------------------------------------------------------------------
(***************************************************************************)
(* A request on its way to the handler                                     *)
(***************************************************************************)
Arrive(c) ==
  /\ rq[c].st \in {"free", "done"}
  /\ sent < MaxRequests
  /\ \E r \in PlainRequests, f \in {"none"} \cup Flaws, tok \in Issued \cup {None} :
       /\ r.op \in ClientOps
       /\ f \in {"none"} \cup EarlyFlaws(r.op) \cup LateFlaws(r.op)
       /\ rq' = [rq EXCEPT ![c] =
                   [FreeSlot EXCEPT !.st = "arrived", !.n = sent + 1, !.op = r.op,
                                    !.on = r.on, !.grant = r.grant, !.ttl = r.ttl,
                                    !.flaw = f, !.tok = tok, !.dead = Dead(tok)]]
  /\ sent' = sent + 1
  /\ UNCHANGED <<tokens, projects, now, log, unlogged, withdrawn>>

\* audit_middleware, first half.  An error of the query counts as no name.
ResolveName(c) ==
  LET who == authenticate(rq[c].tok)
  IN  /\ rq[c].st = "arrived"
      /\ \E name \in {IF who = None THEN None ELSE who.name}
                      \cup {x \in {None} : Faults} :
           rq' = [rq EXCEPT ![c].st = "resolved", ![c].who = name]
      /\ UNCHANGED <<tokens, projects, now, sent, log, unlogged, withdrawn>>

Handled(c, code) == rq' = [rq EXCEPT ![c].st = "handled", ![c].code = code]

\* The AuthedToken extractor.
Authenticate(c) ==
  LET who == authenticate(rq[c].tok)
  IN  /\ rq[c].st = "resolved" /\ rq[c].op \notin OpenOps
      /\ IF who = None
           THEN Handled(c, 401)
           ELSE rq' = [rq EXCEPT ![c].st = "authed", ![c].auth = who]
      /\ UNCHANGED <<tokens, projects, now, sent, log, unlogged, withdrawn>>

HandleOpen(c) ==
  /\ rq[c].st = "resolved" /\ rq[c].op \in OpenOps
  /\ Handled(c, IF rq[c].op = "health" THEN 200 ELSE 404)
  /\ UNCHANGED <<tokens, projects, now, sent, log, unlogged, withdrawn>>

\* Mutant: a dropped request is recorded, without a status.
HangUp_Recorded(c) ==
  /\ rq[c].st = "authed" /\ rq[c].op \in HasBody
  /\ rq' = [rq EXCEPT ![c] = Closed(rq[c], Lost)]
  /\ log' = log \cup {[n |-> rq[c].n, who |-> rq[c].who, status |-> rq[c].code]}
  /\ UNCHANGED <<tokens, projects, now, sent, unlogged, withdrawn>>

\* The body is read after the token is checked and may never come: the request
\* is dropped with its connection, and the middleware does not get to record it.
HangUp(c) ==
  /\ rq[c].st = "authed" /\ rq[c].op \in HasBody
  /\ rq' = [rq EXCEPT ![c] = Closed(rq[c], Lost)]
  /\ UNCHANGED <<tokens, projects, now, sent, log, unlogged, withdrawn>>

-----------------------------------------------------------------------------
(***************************************************************************)
(* Handlers                                                                *)
(***************************************************************************)

\* Mutant: the token handlers do not call ensure_admin.
Permitted_NoAdmin(op, on, scope) ==
  op \in ProjectOps => scope \in {None, on}

\* ensure_scope and ensure_admin
Permitted(op, on, scope) ==
  CASE op \in ProjectOps -> scope \in {None, on}
    [] op \in TokenOps -> scope = None
    [] OTHER -> TRUE

\* The status of a request refused before it touches the database, or 0.
Refusal(r) ==
  IF r.flaw \in EarlyFlaws(r.op) THEN FlawCode(r.flaw)
  ELSE IF ~Permitted(r.op, r.on, r.auth.scope) THEN 403
  ELSE IF r.flaw # "none" THEN FlawCode(r.flaw)
  ELSE IF r.op = "token_create" /\ r.ttl = 0 THEN 400
  ELSE 0

Accepted(c, ops) == /\ rq[c].st = "authed" /\ rq[c].op \in ops
                    /\ Refusal(rq[c]) = 0

HandleRefuse(c) ==
  /\ rq[c].st = "authed" /\ Refusal(rq[c]) # 0
  /\ Handled(c, Refusal(rq[c]))
  /\ UNCHANGED <<tokens, projects, now, sent, log, unlogged, withdrawn>>

HandleCreate(c) ==
  /\ Accepted(c, {"create"})
  /\ Handled(c, IF rq[c].on \in projects THEN 409 ELSE 201)
  /\ projects' = projects \cup {rq[c].on}
  /\ UNCHANGED <<tokens, now, sent, log, unlogged, withdrawn>>

\* get, put, delete: a DELETE also misses when the key is not there.
HandleSecrets(c) ==
  /\ Accepted(c, {"get", "put", "delete"})
  /\ IF rq[c].on \in projects
       THEN \E code \in (IF rq[c].op = "delete" THEN {204, 404} ELSE {200}) :
              rq' = [rq EXCEPT ![c].st = "handled", ![c].code = code,
                               ![c].seen = {rq[c].on}]
       ELSE Handled(c, 404)
  /\ UNCHANGED <<tokens, projects, now, sent, log, unlogged, withdrawn>>

HandleListProjects(c) ==
  LET scope == rq[c].auth.scope
  IN  /\ Accepted(c, {"list_projects"})
      /\ rq' = [rq EXCEPT ![c].st = "handled", ![c].code = 200,
                          ![c].seen = {p \in projects : scope \in {None, p}}]
      /\ UNCHANGED <<tokens, projects, now, sent, log, unlogged, withdrawn>>

HandleTokenList(c) ==
  /\ Accepted(c, {"token_list"})
  /\ Handled(c, 200)
  /\ UNCHANGED <<tokens, projects, now, sent, log, unlogged, withdrawn>>

HandleTokenCreate(c, t) ==
  /\ Accepted(c, {"token_create"})
  /\ Representable(rq[c].ttl)
  /\ insert_token(t, NewRow(rq[c].on, rq[c].grant, rq[c].ttl))
  /\ Handled(c, 201)
  /\ UNCHANGED <<projects, now, sent, log, unlogged, withdrawn>>

HandleTokenRevoke(c) ==
  /\ Accepted(c, {"token_revoke"})
  /\ revoke_token(rq[c].on)
  /\ Handled(c, 200)
  /\ UNCHANGED <<projects, now, sent, log, unlogged>>

\* The database fails in the extractor, which looks up any bearer token, known or
\* not, or in a handler.
DatabaseFails(c) ==
  /\ Faults
  /\ \/ rq[c].st = "resolved" /\ rq[c].op \notin OpenOps
     \/ Accepted(c, Ops)
  /\ Handled(c, 500)
  /\ UNCHANGED <<tokens, projects, now, sent, log, unlogged, withdrawn>>

-----------------------------------------------------------------------------
(***************************************************************************)
(* Answers                                                                 *)
(***************************************************************************)

\* Mutant: only requests with a known token are recorded.
Record_NamedOnly(c) ==
  LET entry == [n |-> rq[c].n, who |-> rq[c].who, status |-> rq[c].code]
  IN  /\ rq[c].st = "handled"
      /\ log' = IF rq[c].who = None THEN log ELSE log \cup {entry}
      /\ rq' = [rq EXCEPT ![c].st = "recorded"]
      /\ UNCHANGED <<tokens, projects, now, sent, unlogged, withdrawn>>

\* audit_middleware, second half: record, then let the answer go.  A record that
\* cannot be written is only reported to stderr.
Record(c) ==
  LET entry == [n |-> rq[c].n, who |-> rq[c].who, status |-> rq[c].code]
  IN  /\ rq[c].st = "handled"
      /\ \/ log' = log \cup {entry} /\ UNCHANGED unlogged
         \/ Faults /\ unlogged' = unlogged \cup {rq[c].n} /\ UNCHANGED log
      /\ rq' = [rq EXCEPT ![c].st = "recorded"]
      /\ UNCHANGED <<tokens, projects, now, sent, withdrawn>>

Reply(c) ==
  /\ rq[c].st = "recorded"
  /\ rq' = [rq EXCEPT ![c] = Closed(rq[c], rq[c].code)]
  /\ UNCHANGED <<tokens, projects, now, sent, log, unlogged, withdrawn>>

\* The process ends with all its requests; what they committed stays.
ProcessEnds(S) ==
  /\ rq' = [c \in Slots |->
              IF rq[c].st \in {"free", "done"} THEN rq[c]
              ELSE Closed(rq[c], IF c \in S THEN Aborted ELSE Lost)]
  /\ UNCHANGED <<tokens, projects, now, sent, log, unlogged, withdrawn>>

Crash == /\ \E c \in Slots : rq[c].st \notin {"free", "done"}
         /\ ProcessEnds({})

\* now_utc() + Duration::days(ttl_days) panics outside the representable range,
\* and the release profile aborts on panic.
TtlOverflow(c) ==
  /\ Accepted(c, {"token_create"})
  /\ ~Representable(rq[c].ttl)
  /\ ProcessEnds({c})

-----------------------------------------------------------------------------
Handle(c) == \/ HandleRefuse(c) \/ HandleCreate(c) \/ HandleSecrets(c)
             \/ HandleListProjects(c) \/ HandleTokenList(c)
             \/ HandleTokenRevoke(c) \/ TtlOverflow(c)
             \/ \E t \in Tokens : HandleTokenCreate(c, t)

Serve(c) == \/ ResolveName(c) \/ Authenticate(c) \/ HandleOpen(c)
            \/ Handle(c) \/ Record(c) \/ Reply(c)

Cli == \/ \E t \in Tokens, name \in Names, scope \in Projects \cup {None},
             ttl \in TTLs \cup {None} : CliTokenCreate(t, name, scope, ttl)
       \/ \E name \in Names : CliTokenRevoke(name)

Next ==
  \/ Cli \/ Tick \/ Crash
  \/ \E c \in Slots : Arrive(c) \/ Serve(c) \/ HangUp(c) \/ DatabaseFails(c)

Spec == Init /\ [][Next]_vars

-----------------------------------------------------------------------------
(***************************************************************************)
(* Properties                                                              *)
(***************************************************************************)
Answered(c) == rq[c].st = "done" /\ rq[c].code \notin {Lost, Aborted}

\* A request whose token had expired, or had been covered by a completed revoke
\* of its name (HTTP or CLI), when the request arrived, gets 401 (or 500, if the
\* database fails): it is told nothing and changes nothing, however the revoke,
\* the clock and other requests interleave with it (auth.rs, repo.rs).
DeadOnArrival ==
  \A c \in Slots :
    rq[c].dead /\ rq[c].op \notin OpenOps =>
      /\ rq[c].st # "authed"
      /\ rq[c].seen = {}
      /\ rq[c].code \in {Lost, 401, 500}

\* What one handler step does stays within the scope that the table has for the
\* token that was presented: a scoped token creates and sees only its project
\* and never touches the token table, and no request without an issued token
\* changes anything (auth.rs, handlers.rs).  Steps that leave rq alone are the
\* operator's.
Confined(c) ==
  LET t == rq[c].tok
      scope == tokens[t].scope
  IN  /\ t \in Issued
      /\ scope = None \/ projects' \ projects \subseteq {scope}
      /\ scope = None \/ rq'[c].seen \subseteq {scope}
      /\ scope = None \/ tokens' = tokens

Confinement == [][
  \A c \in Slots :
    rq'[c] # rq[c] /\ (projects' # projects \/ tokens' # tokens
                        \/ rq'[c].seen \ rq[c].seen # {})
      => Confined(c)]_vars

\* Every answer has its record in the audit log, with the status that was
\* answered, before the client gets it, unless the write failed; a request has
\* at most one record, and a record names no one but the holder of the token
\* (audit.rs; README: "one record per request").
EntriesOf(c) == {e \in log : e.n = rq[c].n}

AnswersAudited ==
  \A c \in Slots :
    /\ Answered(c) /\ rq[c].n \notin unlogged =>
         \E e \in log : /\ EntriesOf(c) = {e}
                        /\ e.status = rq[c].code
                        /\ e.who # None => e.who = tokens[rq[c].tok].name
    /\ rq[c].st \notin {"free", "recorded", "done"} => EntriesOf(c) = {}
=============================================================================
