---------------------------- MODULE AccessProofs ----------------------------
(***************************************************************************)
(* Proofs about tokens, authorization and the audit log (module Access),   *)
(* for any number of concurrent requests, tokens, names and projects.      *)
(***************************************************************************)
EXTENDS Access, TLAPS

\* A token that a completed revoke covered has a row, and it is revoked.
WithdrawnRevoked == \A t \in withdrawn : t \in Issued /\ tokens[t].revoked

\* What a request carries agrees with the table: rows never go away or change
\* their name, scope or expiry, so what was read once stays true.
CarriesTruth(c) ==
  LET r == rq[c]
  IN  /\ r.tok \in Issued \cup {None}
      /\ r.dead => Dead(r.tok)
      /\ r.who # None => r.tok \in Issued /\ r.who = tokens[r.tok].name
      /\ r.st = "authed" =>
           /\ r.op \notin OpenOps
           /\ r.tok \in Issued
           /\ r.auth = [name |-> tokens[r.tok].name, scope |-> tokens[r.tok].scope]

\* A request is about a project or a name, as its operation is.  Before its
\* handler it has told nothing; after it, it has a status.
OnItsKind(r) == /\ r.op \in ProjectOps => r.on \in Projects
                /\ r.op \in {"token_create", "token_revoke"} => r.on \in Names

Progress(c) ==
  /\ rq[c].st \notin {"free", "done"} => OnItsKind(rq[c])
  /\ rq[c].st \in {"free", "arrived", "resolved", "authed"} =>
       rq[c].code = Lost /\ rq[c].seen = {}
  /\ rq[c].st \in {"handled", "recorded"} => rq[c].code \in Statuses

\* A request that was dead on arrival has not passed the extractor.
Barred(c) ==
  rq[c].dead /\ rq[c].op \notin OpenOps =>
    /\ rq[c].st # "authed"
    /\ rq[c].seen = {}
    /\ rq[c].code \in {Lost, 401, 500}

\* The numbers of requests, which tie them to their records, are unique.
Numbered ==
  /\ \A c \in Slots : rq[c].st # "free" => rq[c].n \in 1..sent
  /\ \A c, d \in Slots :
       rq[c].st # "free" /\ rq[d].st # "free" /\ rq[c].n = rq[d].n => c = d
  /\ \A e \in log : e.n \in 1..sent

\* A request has its record from Record on, and none before.
Audited(c) ==
  /\ (rq[c].st = "recorded" \/ Answered(c)) /\ rq[c].n \notin unlogged =>
       \E e \in log : /\ EntriesOf(c) = {e}
                      /\ e.status = rq[c].code
                      /\ e.who # None => e.who = tokens[rq[c].tok].name
                                           /\ rq[c].tok \in Issued
  /\ rq[c].st \notin {"free", "recorded", "done"} => EntriesOf(c) = {}

Inv == /\ TypeOK
       /\ WithdrawnRevoked
       /\ Numbered
       /\ \A c \in Slots : CarriesTruth(c) /\ Progress(c) /\ Barred(c) /\ Audited(c)

-----------------------------------------------------------------------------
(***************************************************************************)
(* Facts about one state                                                   *)
(***************************************************************************)

\* The statuses are not the two marks for a request without an answer.
LEMMA StatusFacts == Lost \notin Statuses /\ Aborted \notin Statuses /\ Lost # Aborted
BY DEF Lost, Aborted, Statuses

\* A request with one field set to a value of the field's type is a request.
LEMMA FieldTypes ==
  ASSUME NEW r \in RequestStates
  PROVE  /\ \A x \in Stages : [r EXCEPT !.st = x] \in RequestStates
         /\ \A x \in 0..MaxRequests : [r EXCEPT !.n = x] \in RequestStates
         /\ \A x \in Ops : [r EXCEPT !.op = x] \in RequestStates
         /\ \A x \in Projects \cup Names \cup {None} : [r EXCEPT !.on = x] \in RequestStates
         /\ \A x \in Projects \cup {None} : [r EXCEPT !.grant = x] \in RequestStates
         /\ \A x \in TTLs \cup {None} : [r EXCEPT !.ttl = x] \in RequestStates
         /\ \A x \in {"none"} \cup Flaws : [r EXCEPT !.flaw = x] \in RequestStates
         /\ \A x \in Tokens \cup {None} : [r EXCEPT !.tok = x] \in RequestStates
         /\ \A x \in BOOLEAN : [r EXCEPT !.dead = x] \in RequestStates
         /\ \A x \in Names \cup {None} : [r EXCEPT !.who = x] \in RequestStates
         /\ \A x \in AuthedTokens \cup {None} : [r EXCEPT !.auth = x] \in RequestStates
         /\ \A x \in Statuses \cup {Lost, Aborted} : [r EXCEPT !.code = x] \in RequestStates
         /\ \A x \in SUBSET Projects : [r EXCEPT !.seen = x] \in RequestStates
<1>1. ASSUME NEW x \in Stages
      PROVE  [r EXCEPT !.st = x] \in RequestStates
  BY Zenon DEF RequestStates
<1>2. ASSUME NEW x \in 0..MaxRequests
      PROVE  [r EXCEPT !.n = x] \in RequestStates
  BY Zenon DEF RequestStates
<1>3. ASSUME NEW x \in Ops
      PROVE  [r EXCEPT !.op = x] \in RequestStates
  BY Zenon DEF RequestStates
<1>4. ASSUME NEW x \in Projects \cup Names \cup {None}
      PROVE  [r EXCEPT !.on = x] \in RequestStates
  BY Zenon DEF RequestStates
<1>5. ASSUME NEW x \in Projects \cup {None}
      PROVE  [r EXCEPT !.grant = x] \in RequestStates
  BY Zenon DEF RequestStates
<1>6. ASSUME NEW x \in TTLs \cup {None}
      PROVE  [r EXCEPT !.ttl = x] \in RequestStates
  BY Zenon DEF RequestStates
<1>7. ASSUME NEW x \in {"none"} \cup Flaws
      PROVE  [r EXCEPT !.flaw = x] \in RequestStates
  BY Zenon DEF RequestStates
<1>8. ASSUME NEW x \in Tokens \cup {None}
      PROVE  [r EXCEPT !.tok = x] \in RequestStates
  BY Zenon DEF RequestStates
<1>9. ASSUME NEW x \in BOOLEAN
      PROVE  [r EXCEPT !.dead = x] \in RequestStates
  BY Zenon DEF RequestStates
<1>10. ASSUME NEW x \in Names \cup {None}
       PROVE  [r EXCEPT !.who = x] \in RequestStates
  BY Zenon DEF RequestStates
<1>11. ASSUME NEW x \in AuthedTokens \cup {None}
       PROVE  [r EXCEPT !.auth = x] \in RequestStates
  BY Zenon DEF RequestStates
<1>12. ASSUME NEW x \in Statuses \cup {Lost, Aborted}
       PROVE  [r EXCEPT !.code = x] \in RequestStates
  BY Zenon DEF RequestStates
<1>13. ASSUME NEW x \in SUBSET Projects
       PROVE  [r EXCEPT !.seen = x] \in RequestStates
  BY Zenon DEF RequestStates
<1> QED BY <1>1, <1>2, <1>3, <1>4, <1>5, <1>6, <1>7,
           <1>8, <1>9, <1>10, <1>11, <1>12, <1>13

\* The values in a free and in a closed slot have their types.
LEMMA SlotTypes ==
  /\ FreeSlot \in RequestStates
  /\ \A r \in RequestStates, code \in Statuses \cup {Lost, Aborted} :
       Closed(r, code) \in RequestStates
<1>1. FreeSlot \in RequestStates
  BY NumbersAssumption DEF FreeSlot, RequestStates, Stages, Ops, OpenOps
<1>2. ASSUME NEW r \in RequestStates, NEW code \in Statuses \cup {Lost, Aborted}
      PROVE  Closed(r, code) \in RequestStates
  <2>1. /\ r.n \in 0..MaxRequests /\ r.op \in Ops /\ r.tok \in Tokens \cup {None}
        /\ r.dead \in BOOLEAN
    BY DEF RequestStates
  <2>2. [FreeSlot EXCEPT !.st = "done", !.n = r.n, !.op = r.op] \in RequestStates
    BY <1>1, <2>1, FieldTypes DEF Stages
  <2>3. [FreeSlot EXCEPT !.st = "done", !.n = r.n, !.op = r.op, !.tok = r.tok]
          \in RequestStates
    BY <2>1, <2>2, FieldTypes
  <2>4. [FreeSlot EXCEPT !.st = "done", !.n = r.n, !.op = r.op, !.tok = r.tok,
                         !.dead = r.dead] \in RequestStates
    BY <2>1, <2>3, FieldTypes, Zenon
  <2> QED BY <2>4, FieldTypes, Zenon DEF Closed
<1> QED BY <1>1, <1>2

\* authenticate lets a dead token through in no state.
LEMMA DeadRefused ==
  ASSUME Inv, NEW t \in Issued \cup {None}, Dead(t)
  PROVE  authenticate(t) = None
BY DEF Inv, WithdrawnRevoked, Dead, authenticate

\* What authenticate returns is in the row of the token.
LEMMA AuthenticateFacts ==
  ASSUME Inv, NEW t \in Issued \cup {None}, authenticate(t) # None
  PROVE  /\ t \in Issued /\ ~Dead(t)
         /\ authenticate(t) = [name |-> tokens[t].name, scope |-> tokens[t].scope]
         /\ authenticate(t) \in AuthedTokens
<1>1. t \in Issued /\ authenticate(t) = [name |-> tokens[t].name,
                                         scope |-> tokens[t].scope]
  BY DEF authenticate, Issued
<1>2. ~Dead(t) BY DeadRefused
<1>3. tokens[t] \in Rows BY <1>1 DEF Inv, TypeOK, Issued
<1> QED BY <1>1, <1>2, <1>3 DEF Rows, AuthedTokens

\* Nothing has happened at first.
LEMMA InitInv == Init => Inv
<1> SUFFICES ASSUME Init PROVE Inv
  OBVIOUS
<1>1. TypeOK BY SlotTypes, NumbersAssumption DEF Init, TypeOK
<1>2. WithdrawnRevoked BY DEF Init, WithdrawnRevoked
<1>3. Numbered BY DEF Init, Numbered, FreeSlot
<1>4. ASSUME NEW c \in Slots
      PROVE  CarriesTruth(c) /\ Progress(c) /\ Barred(c) /\ Audited(c)
  BY DEF Init, CarriesTruth, Progress, Barred, Audited, Answered, FreeSlot
<1> QED BY <1>1, <1>2, <1>3, <1>4 DEF Inv

-----------------------------------------------------------------------------
(***************************************************************************)
(* Facts about any step                                                    *)
(***************************************************************************)

\* The table of tokens and the clock only go forward.
TokensGrow ==
  /\ tokens' \in [Tokens -> Rows \cup {None}]
  /\ \A t \in Issued : /\ tokens'[t] # None
                       /\ tokens'[t].name = tokens[t].name
                       /\ tokens'[t].scope = tokens[t].scope
                       /\ tokens'[t].exp = tokens[t].exp
  /\ now' \in 0..MaxTime /\ now <= now'
  /\ withdrawn \subseteq withdrawn' /\ withdrawn' \in SUBSET Tokens
  /\ \A t \in withdrawn' : tokens'[t] # None /\ tokens'[t].revoked

\* A token that was dead stays dead.
LEMMA DeadStays ==
  ASSUME Inv, TokensGrow, NEW t \in Issued \cup {None}, Dead(t)
  PROVE  Dead(t)'
<1>1. CASE t = None \/ t \in withdrawn BY <1>1 DEF Dead, TokensGrow
<1>2. CASE t \in Issued /\ Expired(tokens[t])
  <2>1. tokens[t] \in Rows /\ now \in Nat /\ now' \in Nat
    BY <1>2, NumbersAssumption DEF Inv, TypeOK, Issued, TokensGrow
  <2>2. tokens[t].exp \in Nat BY <1>2, <2>1 DEF Expired, Rows
  <2> QED BY <1>2, <2>1, <2>2 DEF Expired, Dead, TokensGrow
<1> QED BY <1>1, <1>2 DEF Dead

\* A step of others, which may at most add records of other requests to the
\* log, keeps everything that is known of a request.
LEMMA SlotKeeps ==
  ASSUME Inv, TypeOK', TokensGrow, NEW d \in Slots, rq'[d] = rq[d],
         unlogged \subseteq unlogged', log \subseteq log',
         \A e \in log' \ log : rq[d].st # "free" => e.n # rq[d].n
  PROVE  CarriesTruth(d)' /\ Progress(d)' /\ Barred(d)' /\ Audited(d)'
<1>1. CarriesTruth(d) /\ Progress(d) /\ Barred(d) /\ Audited(d) BY DEF Inv
<1>2. Issued \subseteq Issued' BY DEF TokensGrow, Issued
<1>3. CarriesTruth(d)'
  <2>1. rq[d].dead => Dead(rq[d].tok)'
    BY <1>1, DeadStays DEF CarriesTruth
  <2> QED BY <1>1, <1>2, <2>1 DEF CarriesTruth, TokensGrow
<1>4. Progress(d)' /\ Barred(d)' BY <1>1 DEF Progress, Barred
<1>5. Audited(d)'
  <2>1. rq[d].st # "free" => EntriesOf(d)' = EntriesOf(d)
    BY DEF EntriesOf
  <2>2. Answered(d)' <=> Answered(d) BY DEF Answered
  <2> QED BY <1>1, <1>2, <2>1, <2>2 DEF Audited, TokensGrow, Answered
<1> QED BY <1>3, <1>4, <1>5

\* The numbering survives a step in which requests keep their numbers and no
\* free slot is taken, and records are only of requests that were sent.
LEMMA NumberedKeeps ==
  ASSUME Inv, sent' = sent,
         \A d \in Slots : rq'[d].n = rq[d].n /\ (rq[d].st = "free" => rq'[d].st = "free"),
         \A e \in log' \ log : e.n \in 1..sent
  PROVE  Numbered'
BY DEF Inv, Numbered

\* A step that leaves the token table alone.
LEMMA TableKept ==
  ASSUME Inv, UNCHANGED <<tokens, now, withdrawn>>
  PROVE  TokensGrow
BY NumbersAssumption DEF Inv, TypeOK, TokensGrow, WithdrawnRevoked, Issued

\* A step of one request, c, on its way, that does not touch the log.
LEMMA RequestStep ==
  ASSUME Inv, NEW c \in Slots, TokensGrow, projects' \in SUBSET Projects,
         rq' \in [Slots -> RequestStates],
         \A d \in Slots \ {c} : rq'[d] = rq[d],
         rq[c].st # "free", rq'[c].n = rq[c].n, UNCHANGED <<sent, log, unlogged>>,
         CarriesTruth(c)', Progress(c)', Barred(c)', Audited(c)'
  PROVE  Inv'
<1>1. TypeOK' BY DEF Inv, TypeOK, TokensGrow
<1>2. WithdrawnRevoked' BY DEF WithdrawnRevoked, TokensGrow, Issued
<1>3. Numbered' BY NumberedKeeps
<1>4. ASSUME NEW d \in Slots
      PROVE  CarriesTruth(d)' /\ Progress(d)' /\ Barred(d)' /\ Audited(d)'
  <2>1. CASE d = c BY <2>1
  <2>2. CASE d # c BY <1>1, <2>2, SlotKeeps
  <2> QED BY <2>1, <2>2
<1> QED BY <1>1, <1>2, <1>3, <1>4 DEF Inv

-----------------------------------------------------------------------------
(***************************************************************************)
(* The CLI and time                                                        *)
(***************************************************************************)

\* A step that leaves the requests alone.
LEMMA OutsideStep ==
  ASSUME Inv, TokensGrow, UNCHANGED <<projects, rq, sent, log, unlogged>>
  PROVE  Inv'
<1>1. TypeOK' BY DEF Inv, TypeOK, TokensGrow
<1>2. WithdrawnRevoked' BY DEF WithdrawnRevoked, TokensGrow, Issued
<1>3. Numbered' BY DEF Inv, Numbered
<1>4. ASSUME NEW d \in Slots
      PROVE  CarriesTruth(d)' /\ Progress(d)' /\ Barred(d)' /\ Audited(d)'
  BY <1>1, SlotKeeps
<1> QED BY <1>1, <1>2, <1>3, <1>4 DEF Inv

\* A new row takes the place of none.
LEMMA InsertGrows ==
  ASSUME Inv, NEW t \in Tokens, NEW name \in Names, NEW scope \in Projects \cup {None},
         NEW ttl \in TTLs \cup {None}, insert_token(t, NewRow(name, scope, ttl)),
         UNCHANGED <<now, withdrawn>>
  PROVE  TokensGrow
<1>1. NewRow(name, scope, ttl) \in Rows
  <2>1. now \in Nat BY NumbersAssumption DEF Inv, TypeOK
  <2>2. (IF ttl = None THEN None ELSE now + ttl) \in Nat \cup {None}
    BY <2>1, NumbersAssumption
  <2> QED BY <2>2 DEF NewRow, Rows
<1>2. tokens' = [tokens EXCEPT ![t] = NewRow(name, scope, ttl)] /\ t \notin Issued
  BY DEF insert_token, Issued
<1> QED
  BY <1>1, <1>2, NumbersAssumption
     DEF TokensGrow, Inv, TypeOK, Issued, WithdrawnRevoked

\* A revoke marks rows, and only that.
LEMMA RevokeGrows ==
  ASSUME Inv, NEW name, revoke_token(name), now' = now
  PROVE  TokensGrow
<1>1. ASSUME NEW t \in Issued
      PROVE  /\ tokens[t] \in Rows /\ tokens'[t] \in Rows /\ tokens'[t] # None
             /\ tokens'[t].name = tokens[t].name
             /\ tokens'[t].scope = tokens[t].scope
             /\ tokens'[t].exp = tokens[t].exp
             /\ tokens[t].revoked \/ tokens[t].name = name => tokens'[t].revoked
  <2>1. tokens[t] \in Rows /\ t \in Tokens BY DEF Inv, TypeOK, Issued
  <2>2. tokens'[t] = IF tokens[t].name = name THEN [tokens[t] EXCEPT !.revoked = TRUE]
                                              ELSE tokens[t]
    BY <2>1 DEF revoke_token
  <2>3. tokens'[t] # None BY <2>1, <2>2, NoneIsNoRow DEF Rows
  <2> QED BY <2>1, <2>2, <2>3 DEF Rows
<1>2. ASSUME NEW t \in Tokens, t \notin Issued PROVE tokens'[t] = None
  BY <1>2 DEF revoke_token, Issued
<1>3. tokens' \in [Tokens -> Rows \cup {None}]
  BY <1>1, <1>2 DEF revoke_token
<1>4. withdrawn' = withdrawn \cup {t \in Issued : tokens[t].name = name}
  BY DEF revoke_token
<1>5. \A t \in withdrawn' : tokens'[t] # None /\ tokens'[t].revoked
  BY <1>1, <1>4 DEF Inv, WithdrawnRevoked
<1> QED
  BY <1>1, <1>3, <1>4, <1>5, NumbersAssumption DEF TokensGrow, Inv, TypeOK, Issued
-----------------------------------------------------------------------------
(***************************************************************************)
(* Arrival, the name for the log and the extractor                         *)
(***************************************************************************)

\* What stays with a request until it is answered.
Carried(c) == /\ rq'[c].n = rq[c].n /\ rq'[c].op = rq[c].op /\ rq'[c].on = rq[c].on
              /\ rq'[c].tok = rq[c].tok /\ rq'[c].dead = rq[c].dead

OthersSame(c) == /\ rq' \in [Slots -> RequestStates]
                 /\ \A d \in Slots \ {c} : rq'[d] = rq[d]

\* What a new request looks like.
LEMMA ArriveFields ==
  ASSUME Inv, NEW c \in Slots, Arrive(c)
  PROVE  /\ OthersSame(c) /\ rq'[c].st = "arrived" /\ rq'[c].n = sent + 1
         /\ rq'[c].tok \in Issued \cup {None} /\ rq'[c].who = None
         /\ rq'[c].code = Lost /\ rq'[c].seen = {} /\ OnItsKind(rq'[c])
         /\ rq'[c].dead => Dead(rq'[c].tok)
<1>1. PICK x \in PlainRequests, f \in {"none"} \cup Flaws, tok \in Issued \cup {None} :
        /\ x.op \in ClientOps
        /\ rq' = [rq EXCEPT ![c] =
                    [FreeSlot EXCEPT !.st = "arrived", !.n = sent + 1, !.op = x.op,
                                     !.on = x.on, !.grant = x.grant, !.ttl = x.ttl,
                                     !.flaw = f, !.tok = tok, !.dead = Dead(tok)]]
  BY DEF Arrive
<1> DEFINE q == [FreeSlot EXCEPT !.st = "arrived", !.n = sent + 1, !.op = x.op,
                                 !.on = x.on, !.grant = x.grant, !.ttl = x.ttl,
                                 !.flaw = f, !.tok = tok]
           r == [q EXCEPT !.dead = Dead(tok)]
<1>2. /\ sent \in Nat /\ sent < MaxRequests /\ sent' = sent + 1
      /\ UNCHANGED <<tokens, projects, now, log, unlogged, withdrawn>>
      /\ rq \in [Slots -> RequestStates]
  BY NumbersAssumption DEF Inv, TypeOK, Arrive
<1>3. /\ x.op \in Ops /\ x.on \in Projects \cup Names \cup {None}
      /\ x.grant \in Projects \cup {None} /\ x.ttl \in TTLs \cup {None}
      /\ tok \in Tokens \cup {None} /\ sent + 1 \in 0..MaxRequests
  <2>1. tok \in Tokens \cup {None} BY DEF Issued
  <2>2. sent + 1 \in 0..MaxRequests BY <1>2, NumbersAssumption
  <2>3. /\ x.op \in Ops /\ x.on \in Projects \cup Names \cup {None}
        /\ x.grant \in Projects \cup {None} /\ x.ttl \in TTLs \cup {None}
    BY DEF PlainRequests, Ops, TokenOps
  <2> QED BY <2>1, <2>2, <2>3
<1>4. q \in RequestStates
  <2>1. [FreeSlot EXCEPT !.st = "arrived", !.n = sent + 1, !.op = x.op]
          \in RequestStates
    BY <1>3, SlotTypes, FieldTypes DEF Stages
  <2>2. [FreeSlot EXCEPT !.st = "arrived", !.n = sent + 1, !.op = x.op,
                         !.on = x.on, !.grant = x.grant] \in RequestStates
    BY <1>3, <2>1, FieldTypes
  <2>3. [FreeSlot EXCEPT !.st = "arrived", !.n = sent + 1, !.op = x.op,
                         !.on = x.on, !.grant = x.grant, !.ttl = x.ttl,
                         !.flaw = f] \in RequestStates
    BY <1>3, <2>2, FieldTypes
  <2> QED BY <1>3, <2>3, FieldTypes
<1>5. /\ q.st = "arrived" /\ q.n = sent + 1 /\ q.tok = tok
      /\ q.who = None /\ q.code = Lost /\ q.seen = {} /\ OnItsKind(q)
  <2>1. OnItsKind(x)
    BY DEF OnItsKind, PlainRequests, ProjectOps, OpenOps
  <2> QED BY <2>1 DEF FreeSlot, OnItsKind
<1>6. rq' = [rq EXCEPT ![c] = r] BY <1>1
<1> HIDE DEF q
<1>7. Dead(tok) \in BOOLEAN BY DEF Dead, Expired
<1>8. /\ r \in RequestStates /\ r.st = "arrived" /\ r.n = sent + 1 /\ r.tok = tok
      /\ r.who = None /\ r.code = Lost /\ r.seen = {} /\ OnItsKind(r)
      /\ r.dead <=> Dead(tok)
  <2>1. r \in RequestStates BY <1>4, <1>7, FieldTypes, Zenon
  <2>2. q \in RequestStates => r.dead = Dead(tok) BY Zenon DEF RequestStates
  <2> QED BY <1>4, <1>5, <2>1, <2>2 DEF RequestStates, OnItsKind
<1> HIDE DEF r
<1>9. OthersSame(c) /\ rq'[c] = r BY <1>2, <1>6, <1>8 DEF OthersSame
<1> QED BY <1>8, <1>9

\* A new request has a number that no request and no record has had.
LEMMA ArriveInv == ASSUME Inv, NEW c \in Slots, Arrive(c) PROVE Inv'
<1>1. /\ sent \in Nat /\ sent' = sent + 1 /\ sent' \in 0..MaxRequests
      /\ UNCHANGED <<tokens, projects, now, log, unlogged, withdrawn>>
  BY NumbersAssumption DEF Inv, TypeOK, Arrive
<1>2. OthersSame(c) /\ rq'[c].st = "arrived" /\ rq'[c].n = sent + 1
  BY ArriveFields
<1>3. TokensGrow BY <1>1, TableKept
<1>4. TypeOK' BY <1>1, <1>2 DEF Inv, TypeOK, OthersSame
<1>5. WithdrawnRevoked' BY <1>1 DEF Inv, WithdrawnRevoked, Issued
<1>6. Numbered'
  <2>1. \A d \in Slots \ {c} : rq[d].st # "free" => rq'[d].n \in 1..sent
    BY <1>2 DEF Inv, Numbered, OthersSame
  <2>2. \A e \in log : e.n \in 1..sent BY DEF Inv, Numbered
  <2>3. ASSUME NEW a \in Slots, NEW b \in Slots,
               rq'[a].st # "free", rq'[b].st # "free", rq'[a].n = rq'[b].n
        PROVE  a = b
    <3>1. CASE a # c /\ b # c
      BY <1>2, <2>3, <3>1 DEF Inv, Numbered, OthersSame
    <3>2. CASE a = c \/ b = c
      BY <1>1, <1>2, <2>1, <2>3, <3>2 DEF OthersSame
    <3> QED BY <3>1, <3>2
  <2> QED BY <1>1, <1>2, <2>1, <2>2, <2>3 DEF Numbered, OthersSame
<1>7. ASSUME NEW d \in Slots
      PROVE  CarriesTruth(d)' /\ Progress(d)' /\ Barred(d)' /\ Audited(d)'
  <2>1. CASE d # c
    BY <1>1, <1>2, <1>3, <1>4, <2>1, SlotKeeps DEF OthersSame
  <2>2. CASE d = c
    <3>1. CarriesTruth(c)'
      BY <1>1, ArriveFields DEF CarriesTruth, Dead, Expired, Issued
    <3>2. Progress(c)' /\ Barred(c)' BY ArriveFields DEF Progress, Barred
    <3>3. EntriesOf(c)' = {}
      BY <1>1, <1>2 DEF EntriesOf, Inv, Numbered
    <3>4. Audited(c)' BY <1>2, <3>3 DEF Audited, Answered
    <3> QED BY <2>2, <3>1, <3>2, <3>4
  <2> QED BY <2>1, <2>2
<1> QED BY <1>4, <1>5, <1>6, <1>7 DEF Inv

\* The name for the log is the one in the token's row, or none.
LEMMA ResolveNameInv == ASSUME Inv, NEW c \in Slots, ResolveName(c) PROVE Inv'
<1> DEFINE t == rq[c].tok
<1>1. PICK name : /\ rq' = [rq EXCEPT ![c].st = "resolved", ![c].who = name]
                  /\ name # None => /\ authenticate(t) # None
                                    /\ name = authenticate(t).name
  BY DEF ResolveName
<1>2. /\ rq[c].st = "arrived" /\ rq[c] \in RequestStates
      /\ rq \in [Slots -> RequestStates] /\ t \in Issued \cup {None}
      /\ UNCHANGED <<tokens, projects, now, sent, log, unlogged, withdrawn>>
  BY DEF Inv, TypeOK, CarriesTruth, ResolveName
<1>3. name # None => t \in Issued /\ name = tokens[t].name /\ name \in Names
  BY <1>1, <1>2, AuthenticateFacts DEF AuthedTokens
<1> DEFINE r == [rq[c] EXCEPT !.st = "resolved", !.who = name]
<1>4. r \in RequestStates
  <2>1. [rq[c] EXCEPT !.st = "resolved"] \in RequestStates
    BY <1>2, FieldTypes DEF Stages
  <2>2. name \in Names \cup {None} BY <1>3
  <2> QED BY <2>1, <2>2, FieldTypes
<1>5. /\ r.st = "resolved" /\ r.who = name /\ r.n = rq[c].n /\ r.op = rq[c].op
      /\ r.tok = t /\ r.dead = rq[c].dead /\ r.code = rq[c].code
      /\ r.seen = rq[c].seen /\ r.on = rq[c].on
  BY <1>2 DEF RequestStates
<1>6. rq' = [rq EXCEPT ![c] = r] BY <1>1
<1> HIDE DEF r
<1>7. OthersSame(c) /\ rq'[c] = r BY <1>2, <1>4, <1>6 DEF OthersSame
<1>8. TokensGrow BY <1>2, TableKept
<1>9. CarriesTruth(c)'
  <2>1. t \in Issued \cup {None} /\ (rq[c].dead => Dead(t))
    BY DEF Inv, CarriesTruth
  <2>2. rq[c].dead => Dead(rq[c].tok)'
    BY <1>5, <1>7, <1>8, <2>1, DeadStays
  <2> QED BY <1>2, <1>3, <1>5, <1>7, <2>1, <2>2 DEF CarriesTruth, Issued
<1>10. Progress(c)' /\ Barred(c)'
  BY <1>2, <1>5, <1>7 DEF Inv, Progress, Barred, OnItsKind
<1>11. Audited(c)'
  <2>1. EntriesOf(c)' = {} BY <1>2, <1>5, <1>7 DEF Inv, Audited, EntriesOf
  <2> QED BY <1>5, <1>7, <2>1 DEF Audited, Answered
<1>12. projects' \in SUBSET Projects BY <1>2 DEF Inv, TypeOK
<1> QED
  BY <1>2, <1>5, <1>7, <1>8, <1>9, <1>10, <1>11, <1>12, RequestStep DEF OthersSame
-----------------------------------------------------------------------------
(***************************************************************************)
(* Handlers                                                                *)
(***************************************************************************)

\* A handler step, or the extractor's 401: the request gets its status.
LEMMA HandledStep ==
  ASSUME Inv, NEW c \in Slots, rq[c].st \in {"resolved", "authed"},
         TokensGrow, projects' \in SUBSET Projects,
         OthersSame(c), Carried(c), rq'[c].st = "handled",
         rq'[c].who = rq[c].who, rq'[c].code \in Statuses,
         rq[c].dead /\ rq[c].op \notin OpenOps =>
           rq'[c].code \in {401, 500} /\ rq'[c].seen = {},
         UNCHANGED <<sent, log, unlogged>>
  PROVE  Inv'
<1>1. CarriesTruth(c)'
  <2>1. CarriesTruth(c) BY DEF Inv
  <2>2. rq[c].dead => Dead(rq[c].tok)'
    BY <2>1, DeadStays DEF CarriesTruth, Carried
  <2>3. Issued \subseteq Issued' BY DEF TokensGrow, Issued
  <2> QED BY <2>1, <2>2, <2>3 DEF CarriesTruth, Carried, TokensGrow
<1>2. Progress(c)' BY DEF Inv, Progress, OnItsKind, Carried
<1>3. Barred(c)' BY DEF Barred, Carried
<1>4. Audited(c)'
  <2>1. EntriesOf(c)' = {} BY DEF Inv, Audited, EntriesOf, Carried
  <2> QED BY <2>1 DEF Audited, Answered
<1> QED BY <1>1, <1>2, <1>3, <1>4, RequestStep DEF OthersSame, Carried

\* What Handled leaves of a request.
LEMMA HandledFields ==
  ASSUME Inv, NEW c \in Slots, NEW code \in Statuses, Handled(c, code)
  PROVE  /\ OthersSame(c) /\ Carried(c)
         /\ rq'[c].st = "handled" /\ rq'[c].code = code
         /\ rq'[c].who = rq[c].who /\ rq'[c].seen = rq[c].seen
<1> DEFINE r == [rq[c] EXCEPT !.st = "handled", !.code = code]
<1>1. rq[c] \in RequestStates /\ rq \in [Slots -> RequestStates]
  BY DEF Inv, TypeOK
<1>2. r \in RequestStates
  <2>1. [rq[c] EXCEPT !.st = "handled"] \in RequestStates
    BY <1>1, FieldTypes DEF Stages
  <2> QED BY <2>1, FieldTypes
<1>3. rq' = [rq EXCEPT ![c] = r] BY DEF Handled
<1>4. /\ r.st = "handled" /\ r.code = code /\ r.who = rq[c].who
      /\ r.seen = rq[c].seen /\ r.n = rq[c].n /\ r.op = rq[c].op
      /\ r.on = rq[c].on /\ r.tok = rq[c].tok /\ r.dead = rq[c].dead
  BY <1>1 DEF RequestStates
<1> HIDE DEF r
<1> QED BY <1>1, <1>2, <1>3, <1>4 DEF OthersSame, Carried

HandledSeen(c, code, seen) ==
  rq' = [rq EXCEPT ![c].st = "handled", ![c].code = code, ![c].seen = seen]

\* The same, for an answer that tells about projects.
LEMMA HandledSeenFields ==
  ASSUME Inv, NEW c \in Slots, NEW code \in Statuses, NEW seen \in SUBSET Projects,
         HandledSeen(c, code, seen)
  PROVE  /\ OthersSame(c) /\ Carried(c)
         /\ rq'[c].st = "handled" /\ rq'[c].code = code
         /\ rq'[c].who = rq[c].who /\ rq'[c].seen = seen
<1> DEFINE r == [rq[c] EXCEPT !.st = "handled", !.code = code, !.seen = seen]
<1>1. rq[c] \in RequestStates /\ rq \in [Slots -> RequestStates]
  BY DEF Inv, TypeOK
<1>2. r \in RequestStates
  <2>1. [rq[c] EXCEPT !.st = "handled", !.code = code] \in RequestStates
    BY <1>1, FieldTypes DEF Stages
  <2> QED BY <2>1, FieldTypes
<1>3. rq' = [rq EXCEPT ![c] = r] BY DEF HandledSeen
<1>4. /\ r.st = "handled" /\ r.code = code /\ r.who = rq[c].who
      /\ r.seen = seen /\ r.n = rq[c].n /\ r.op = rq[c].op
      /\ r.on = rq[c].on /\ r.tok = rq[c].tok /\ r.dead = rq[c].dead
  BY <1>1 DEF RequestStates
<1> HIDE DEF r
<1> QED BY <1>1, <1>2, <1>3, <1>4 DEF OthersSame, Carried

\* The extractor bars a dead token, whatever has happened since it arrived.
LEMMA AuthenticateInv == ASSUME Inv, NEW c \in Slots, Authenticate(c) PROVE Inv'
<1> DEFINE t == rq[c].tok
<1>1. /\ rq[c].st = "resolved" /\ rq[c].op \notin OpenOps
      /\ rq[c] \in RequestStates /\ rq \in [Slots -> RequestStates]
      /\ UNCHANGED <<tokens, projects, now, sent, log, unlogged, withdrawn>>
      /\ CarriesTruth(c) /\ Progress(c) /\ Audited(c)
  BY DEF Inv, TypeOK, Authenticate
<1>2. TokensGrow BY <1>1, TableKept
<1>3. projects' \in SUBSET Projects BY <1>1 DEF Inv, TypeOK
<1>4. CASE authenticate(t) = None
  <2>1. Handled(c, 401) BY <1>4 DEF Authenticate
  <2>2. 401 \in Statuses BY DEF Statuses
  <2> QED BY <1>1, <1>2, <1>3, <2>1, <2>2, HandledFields, HandledStep DEF Progress
<1>5. CASE authenticate(t) # None
  <2>1. rq' = [rq EXCEPT ![c].st = "authed", ![c].auth = authenticate(t)]
    BY <1>5 DEF Authenticate
  <2>2. /\ t \in Issued /\ ~Dead(t) /\ authenticate(t) \in AuthedTokens
        /\ authenticate(t) = [name |-> tokens[t].name, scope |-> tokens[t].scope]
    BY <1>1, <1>5, AuthenticateFacts DEF CarriesTruth
  <2> DEFINE r == [rq[c] EXCEPT !.st = "authed", !.auth = authenticate(t)]
  <2>3. r \in RequestStates
    <3>1. [rq[c] EXCEPT !.st = "authed"] \in RequestStates
      BY <1>1, FieldTypes DEF Stages
    <3> QED BY <2>2, <3>1, FieldTypes
  <2>4. rq' = [rq EXCEPT ![c] = r] BY <2>1
  <2>5. /\ r.st = "authed" /\ r.auth = authenticate(t) /\ r.who = rq[c].who
        /\ r.seen = rq[c].seen /\ r.n = rq[c].n /\ r.op = rq[c].op
        /\ r.tok = t /\ r.dead = rq[c].dead /\ r.code = rq[c].code
        /\ r.on = rq[c].on
    BY <1>1 DEF RequestStates
  <2> HIDE DEF r
  <2>6. OthersSame(c) /\ rq'[c] = r BY <1>1, <2>3, <2>4 DEF OthersSame
  <2>7. ~rq[c].dead BY <1>1, <2>2 DEF CarriesTruth
  <2>8. CarriesTruth(c)'
    BY <1>1, <2>2, <2>5, <2>6, <2>7 DEF CarriesTruth, Issued
  <2>9. Progress(c)' /\ Barred(c)'
    BY <1>1, <2>5, <2>6, <2>7 DEF Progress, Barred, OnItsKind
  <2>10. Audited(c)'
    <3>1. EntriesOf(c)' = {} BY <1>1, <2>5, <2>6 DEF Audited, EntriesOf
    <3> QED BY <2>5, <2>6, <3>1 DEF Audited, Answered
  <2> QED
    BY <1>1, <1>2, <1>3, <2>5, <2>6, <2>8, <2>9, <2>10, RequestStep DEF OthersSame
<1> QED BY <1>4, <1>5

\* A request in a handler had a live token when it arrived.
LEMMA AuthedIsAlive ==
  ASSUME Inv, NEW c \in Slots, rq[c].st = "authed"
  PROVE  ~rq[c].dead /\ rq[c].op \notin OpenOps
BY DEF Inv, CarriesTruth, Barred

\* A refused request has a status of its own.
LEMMA RefusalCodes ==
  ASSUME NEW r, Refusal(r) # 0
  PROVE  Refusal(r) \in Statuses
BY DEF Refusal, FlawCode, Statuses

\* Handlers that change no table.
LEMMA PlainHandlers ==
  ASSUME Inv, NEW c \in Slots,
         \/ HandleOpen(c) \/ HandleRefuse(c) \/ HandleTokenList(c)
         \/ DatabaseFails(c)
  PROVE  Inv'
<1>1. /\ UNCHANGED <<tokens, projects, now, sent, log, unlogged, withdrawn>>
      /\ rq[c].st \in {"resolved", "authed"}
  BY DEF HandleOpen, HandleRefuse, HandleTokenList, DatabaseFails, Accepted
<1>2. TokensGrow /\ projects' \in SUBSET Projects
  BY <1>1, TableKept DEF Inv, TypeOK
<1>3. PICK code \in Statuses :
        /\ Handled(c, code)
        /\ rq[c].st = "authed" \/ rq[c].op \in OpenOps \/ code = 500
  <2>1. CASE HandleOpen(c) BY <2>1 DEF HandleOpen, Statuses
  <2>2. CASE HandleRefuse(c) BY <2>2, RefusalCodes DEF HandleRefuse
  <2>3. CASE HandleTokenList(c) BY <2>3 DEF HandleTokenList, Accepted, Statuses
  <2>4. CASE DatabaseFails(c) BY <2>4 DEF DatabaseFails, Statuses
  <2> QED BY <2>1, <2>2, <2>3, <2>4
<1>4. rq[c].dead /\ rq[c].op \notin OpenOps => code = 500 /\ rq[c].seen = {}
  BY <1>3, AuthedIsAlive DEF Inv, Barred
<1> QED BY <1>1, <1>2, <1>3, <1>4, HandledFields, HandledStep

\* Creating a project.
LEMMA HandleCreateInv == ASSUME Inv, NEW c \in Slots, HandleCreate(c) PROVE Inv'
<1>1. /\ UNCHANGED <<tokens, now, sent, log, unlogged, withdrawn>>
      /\ rq[c].st = "authed" /\ rq[c].op = "create"
      /\ projects' = projects \cup {rq[c].on}
      /\ \E code \in Statuses : Handled(c, code)
  BY DEF HandleCreate, Accepted, Statuses
<1>2. TokensGrow BY <1>1, TableKept
<1>3. rq[c].on \in Projects BY <1>1 DEF Inv, Progress, OnItsKind, ProjectOps
<1>4. projects' \in SUBSET Projects BY <1>1, <1>3 DEF Inv, TypeOK
<1> QED BY <1>1, <1>2, <1>4, AuthedIsAlive, HandledFields, HandledStep
\* The two answers of the handlers for secrets.
LEMMA HandleSecretsFields ==
  ASSUME NEW c \in Slots, HandleSecrets(c)
  PROVE  \E code \in Statuses :
           \/ rq[c].on \in projects /\ HandledSeen(c, code, {rq[c].on})
           \/ rq[c].on \notin projects /\ Handled(c, code)
<1>1. CASE rq[c].on \in projects /\ rq[c].op = "delete"
  <2>1. \E code \in {204, 404} : HandledSeen(c, code, {rq[c].on})
    BY <1>1 DEF HandleSecrets, HandledSeen
  <2> QED BY <1>1, <2>1 DEF Statuses
<1>2. CASE rq[c].on \in projects /\ rq[c].op # "delete"
  <2>1. HandledSeen(c, 200, {rq[c].on})
    BY <1>2 DEF HandleSecrets, HandledSeen
  <2> QED BY <1>2, <2>1 DEF Statuses
<1>3. CASE rq[c].on \notin projects
  BY <1>3 DEF HandleSecrets, Statuses
<1> QED BY <1>1, <1>2, <1>3

\* Reading, writing and deleting secrets.
LEMMA HandleSecretsInv == ASSUME Inv, NEW c \in Slots, HandleSecrets(c) PROVE Inv'
<1>1. /\ UNCHANGED <<tokens, projects, now, sent, log, unlogged, withdrawn>>
      /\ rq[c].st = "authed"
  BY DEF HandleSecrets, Accepted
<1>2. TokensGrow /\ projects' \in SUBSET Projects
  BY <1>1, TableKept DEF Inv, TypeOK
<1>3. CASE rq[c].on \in projects
  <2>1. PICK code \in Statuses : HandledSeen(c, code, {rq[c].on})
    BY <1>3, HandleSecretsFields
  <2>2. {rq[c].on} \in SUBSET Projects BY <1>3 DEF Inv, TypeOK
  <2> QED BY <1>1, <1>2, <2>1, <2>2, AuthedIsAlive, HandledSeenFields, HandledStep
<1>4. CASE rq[c].on \notin projects
  <2>1. \E code \in Statuses : Handled(c, code)
    BY <1>4 DEF HandleSecrets, Statuses
  <2> QED BY <1>1, <1>2, <2>1, AuthedIsAlive, HandledFields, HandledStep
<1> QED BY <1>3, <1>4

\* Listing the projects.
LEMMA HandleListInv ==
  ASSUME Inv, NEW c \in Slots, HandleListProjects(c) PROVE Inv'
<1> DEFINE seen == {x \in projects : rq[c].auth.scope \in {None, x}}
<1>1. /\ UNCHANGED <<tokens, projects, now, sent, log, unlogged, withdrawn>>
      /\ rq[c].st = "authed"
  BY DEF HandleListProjects, Accepted
<1>2. TokensGrow /\ projects' \in SUBSET Projects
  BY <1>1, TableKept DEF Inv, TypeOK
<1>3. seen \in SUBSET Projects BY DEF Inv, TypeOK
<1>4. HandledSeen(c, 200, seen) BY DEF HandleListProjects, HandledSeen
<1> HIDE DEF seen
<1>5. PICK x \in SUBSET Projects, code \in Statuses : HandledSeen(c, code, x)
  BY <1>3, <1>4 DEF Statuses
<1> QED BY <1>1, <1>2, <1>5, AuthedIsAlive, HandledSeenFields, HandledStep

\* Issuing and revoking tokens over HTTP.
LEMMA HandleTokensInv ==
  ASSUME Inv, NEW c \in Slots,
         HandleTokenRevoke(c) \/ \E t \in Tokens : HandleTokenCreate(c, t)
  PROVE  Inv'
<1>1. /\ UNCHANGED <<projects, now, sent, log, unlogged>> /\ rq[c].st = "authed"
      /\ \E code \in Statuses : Handled(c, code)
  BY DEF HandleTokenRevoke, HandleTokenCreate, Accepted, Statuses
<1>2. TokensGrow
  <2>1. CASE HandleTokenRevoke(c)
    BY <1>1, <2>1, RevokeGrows DEF HandleTokenRevoke
  <2>2. ASSUME NEW t \in Tokens, HandleTokenCreate(c, t) PROVE TokensGrow
    <3>1. /\ rq[c].on \in Names /\ rq[c].grant \in Projects \cup {None}
          /\ rq[c].ttl \in TTLs \cup {None}
      <4>1. rq[c].op = "token_create" /\ rq[c].st = "authed"
        BY <2>2 DEF HandleTokenCreate, Accepted
      <4>2. rq[c] \in RequestStates BY DEF Inv, TypeOK
      <4> QED BY <4>1, <4>2 DEF Inv, Progress, OnItsKind, RequestStates
    <3>2. /\ insert_token(t, NewRow(rq[c].on, rq[c].grant, rq[c].ttl))
          /\ UNCHANGED <<now, withdrawn>>
      BY <2>2 DEF HandleTokenCreate
    <3> QED BY <3>1, <3>2, InsertGrows
  <2> QED BY <2>1, <2>2
<1>3. projects' \in SUBSET Projects BY <1>1 DEF Inv, TypeOK
<1> QED BY <1>1, <1>2, <1>3, AuthedIsAlive, HandledFields, HandledStep

-----------------------------------------------------------------------------
(***************************************************************************)
(* Answers                                                                 *)
(***************************************************************************)

\* The record is the first one with the number of its request.
LEMMA RecordInv == ASSUME Inv, NEW c \in Slots, Record(c) PROVE Inv'
<1> DEFINE entry == [n |-> rq[c].n, who |-> rq[c].who, status |-> rq[c].code]
<1>1. /\ rq[c].st = "handled" /\ rq[c] \in RequestStates
      /\ rq \in [Slots -> RequestStates]
      /\ rq' = [rq EXCEPT ![c].st = "recorded"]
      /\ UNCHANGED <<tokens, projects, now, sent, withdrawn>>
      /\ \/ log' = log \cup {entry} /\ unlogged' = unlogged
         \/ unlogged' = unlogged \cup {rq[c].n} /\ log' = log
      /\ CarriesTruth(c) /\ Progress(c) /\ Barred(c) /\ Audited(c)
      /\ rq[c].n \in 1..sent
  BY DEF Inv, TypeOK, Record, Numbered
<1> DEFINE r == [rq[c] EXCEPT !.st = "recorded"]
<1>2. r \in RequestStates BY <1>1, FieldTypes DEF Stages
<1>3. /\ r.st = "recorded" /\ r.n = rq[c].n /\ r.op = rq[c].op /\ r.on = rq[c].on
      /\ r.tok = rq[c].tok /\ r.dead = rq[c].dead /\ r.who = rq[c].who
      /\ r.code = rq[c].code /\ r.seen = rq[c].seen
  BY <1>1 DEF RequestStates
<1>4. rq' = [rq EXCEPT ![c] = r] BY <1>1
<1> HIDE DEF r
<1>5. OthersSame(c) /\ rq'[c] = r BY <1>1, <1>2, <1>4 DEF OthersSame
<1>6. entry \in Entries /\ rq[c].n \in 1..MaxRequests
  <2>1. sent \in 0..MaxRequests BY DEF Inv, TypeOK
  <2>2. rq[c].n \in 1..MaxRequests BY <1>1, <2>1, NumbersAssumption
  <2>3. rq[c].who \in Names \cup {None} /\ rq[c].code \in Statuses
    BY <1>1 DEF RequestStates, Progress
  <2> QED BY <2>2, <2>3 DEF Entries
<1>7. TypeOK' BY <1>1, <1>5, <1>6 DEF Inv, TypeOK, OthersSame
<1>8. TokensGrow BY <1>1, TableKept
<1>9. WithdrawnRevoked' BY <1>1 DEF Inv, WithdrawnRevoked, Issued
<1>10. \A e \in log' \ log : e.n = rq[c].n BY <1>1
<1>11. log \subseteq log' /\ unlogged \subseteq unlogged' BY <1>1
<1>12. Numbered'
  BY <1>1, <1>3, <1>5, <1>10, NumberedKeeps DEF OthersSame
<1>13. ASSUME NEW d \in Slots
       PROVE  CarriesTruth(d)' /\ Progress(d)' /\ Barred(d)' /\ Audited(d)'
  <2>1. CASE d # c
    <3>1. rq[d].st # "free" => rq[d].n # rq[c].n
      BY <1>1, <2>1 DEF Inv, Numbered
    <3>2. rq'[d] = rq[d] BY <1>5, <2>1 DEF OthersSame
    <3> QED BY <1>7, <1>8, <1>10, <1>11, <3>1, <3>2, SlotKeeps
  <2>2. CASE d = c
    <3>1. CarriesTruth(c)'
      <4>1. rq[c].dead => Dead(rq[c].tok)'
        BY <1>1, <1>3, <1>5, <1>8, DeadStays DEF CarriesTruth
      <4> QED BY <1>1, <1>3, <1>5, <4>1 DEF CarriesTruth, Issued
    <3>2. Progress(c)' /\ Barred(c)'
      BY <1>1, <1>3, <1>5 DEF Progress, Barred, OnItsKind
    <3>3. Audited(c)'
      <4>1. EntriesOf(c) = {} BY <1>1 DEF Audited
      <4>2. CASE log' = log \cup {entry}
        <5>1. EntriesOf(c)' = {entry}
          BY <1>3, <1>5, <4>1, <4>2 DEF EntriesOf
        <5>2. entry \in log' BY <4>2
        <5>3. entry.status = rq'[c].code /\ entry.who = rq[c].who
          BY <1>3, <1>5
        <5>4. entry.who # None => /\ entry.who = tokens'[rq'[c].tok].name
                                  /\ rq'[c].tok \in Issued'
          BY <1>1, <1>3, <1>5, <5>3 DEF CarriesTruth, Issued
        <5> HIDE DEF entry
        <5> QED BY <1>3, <1>5, <5>1, <5>2, <5>3, <5>4 DEF Audited
      <4>3. CASE unlogged' = unlogged \cup {rq[c].n}
        BY <1>3, <1>5, <4>3 DEF Audited
      <4> QED BY <1>1, <4>2, <4>3
    <3> QED BY <2>2, <3>1, <3>2, <3>3
  <2> QED BY <2>1, <2>2
<1> QED BY <1>7, <1>9, <1>12, <1>13 DEF Inv

\* What is left of a request in its slot.
LEMMA ClosedFields ==
  ASSUME NEW r \in RequestStates, NEW code
  PROVE  LET q == Closed(r, code)
         IN  /\ q.st = "done" /\ q.n = r.n /\ q.op = r.op /\ q.tok = r.tok
             /\ q.dead = r.dead /\ q.code = code /\ q.who = None /\ q.seen = {}
BY DEF Closed, FreeSlot

\* How a request may leave: answered, once it is recorded, or not at all.
Leaves(c, code) ==
  /\ rq[c].st \notin {"free", "done"}
  /\ rq'[c] = Closed(rq[c], code)
  /\ \/ code = Lost
     \/ code = Aborted /\ rq[c].st = "authed"
     \/ code = rq[c].code /\ rq[c].st = "recorded"

\* Any number of requests leave at once, and nothing else changes.
LEMMA LeaveInv ==
  ASSUME Inv, rq' \in [Slots -> RequestStates],
         \A c \in Slots : rq'[c] = rq[c] \/ \E code : Leaves(c, code),
         UNCHANGED <<tokens, projects, now, sent, log, unlogged, withdrawn>>
  PROVE  Inv'
<1>1. TypeOK' BY DEF Inv, TypeOK
<1>2. WithdrawnRevoked' BY DEF Inv, WithdrawnRevoked, Issued
<1>3. rq \in [Slots -> RequestStates] BY DEF Inv, TypeOK
<1>4. Numbered'
  BY <1>3, ClosedFields, NumberedKeeps DEF Leaves
<1>5. TokensGrow BY TableKept
<1>6. ASSUME NEW c \in Slots
      PROVE  CarriesTruth(c)' /\ Progress(c)' /\ Barred(c)' /\ Audited(c)'
  <2>1. CASE rq'[c] = rq[c] BY <1>1, <1>5, <2>1, SlotKeeps
  <2>2. ASSUME NEW code, Leaves(c, code)
        PROVE  CarriesTruth(c)' /\ Progress(c)' /\ Barred(c)' /\ Audited(c)'
    <3>1. /\ rq'[c].st = "done" /\ rq'[c].n = rq[c].n /\ rq'[c].op = rq[c].op
          /\ rq'[c].tok = rq[c].tok /\ rq'[c].dead = rq[c].dead
          /\ rq'[c].code = code /\ rq'[c].who = None /\ rq'[c].seen = {}
      BY <1>3, <2>2, ClosedFields DEF Leaves
    <3>2. CarriesTruth(c) /\ Progress(c) /\ Barred(c) /\ Audited(c) BY DEF Inv
    <3>3. CarriesTruth(c)'
      <4>1. rq[c].dead => Dead(rq[c].tok)'
        BY <1>5, <3>1, <3>2, DeadStays DEF CarriesTruth
      <4> QED BY <3>1, <3>2, <4>1 DEF CarriesTruth, Issued
    <3>4. Progress(c)' BY <3>1 DEF Progress
    <3>5. Barred(c)'
      <4>1. rq[c].dead /\ rq[c].op \notin OpenOps => code \in {Lost, rq[c].code}
        BY <2>2, AuthedIsAlive DEF Leaves
      <4> QED BY <3>1, <3>2, <4>1 DEF Barred
    <3>6. Audited(c)'
      <4>1. Answered(c)' => rq[c].st = "recorded" /\ code = rq[c].code
        BY <2>2, <3>1 DEF Answered, Leaves
      <4>2. EntriesOf(c)' = EntriesOf(c) BY <3>1 DEF EntriesOf
      <4> QED BY <3>1, <3>2, <4>1, <4>2 DEF Audited, Issued
    <3> QED BY <3>3, <3>4, <3>5, <3>6
  <2> QED BY <2>1, <2>2
<1> QED BY <1>1, <1>2, <1>4, <1>6 DEF Inv

\* An answer, or a connection that ends, closes one slot.
LEMMA CloseInv == ASSUME Inv, NEW c \in Slots, Reply(c) \/ HangUp(c) PROVE Inv'
<1>1. PICK code : /\ rq' = [rq EXCEPT ![c] = Closed(rq[c], code)]
                  /\ \/ code = Lost /\ rq[c].st = "authed"
                     \/ code = rq[c].code /\ rq[c].st = "recorded"
  BY DEF Reply, HangUp
<1>2. /\ rq \in [Slots -> RequestStates]
      /\ UNCHANGED <<tokens, projects, now, sent, log, unlogged, withdrawn>>
  BY DEF Inv, TypeOK, Reply, HangUp
<1>3. code \in Statuses \cup {Lost, Aborted}
  BY <1>1 DEF Inv, Progress
<1>4. Closed(rq[c], code) \in RequestStates BY <1>2, <1>3, SlotTypes
<1>5. rq' \in [Slots -> RequestStates] BY <1>1, <1>2, <1>4
<1>6. Leaves(c, code) BY <1>1, <1>2 DEF Leaves
<1>7. \A d \in Slots : rq'[d] = rq[d] \/ \E x : Leaves(d, x)
  BY <1>1, <1>2, <1>6
<1> QED BY <1>2, <1>5, <1>7, LeaveInv

\* The end of the process closes all slots, with no answer.
LEMMA ProcessEndsInv ==
  ASSUME Inv, Crash \/ \E c \in Slots : TtlOverflow(c)
  PROVE  Inv'
<1>1. PICK S : ProcessEnds(S) /\ \A c \in S : c \in Slots /\ rq[c].st = "authed"
  <2>1. CASE Crash BY <2>1 DEF Crash
  <2>2. ASSUME NEW c \in Slots, TtlOverflow(c)
        PROVE  \E S : ProcessEnds(S) /\ \A x \in S : x \in Slots /\ rq[x].st = "authed"
    <3> WITNESS {c}
    <3> QED BY <2>2 DEF TtlOverflow, Accepted
  <2> QED BY <2>1, <2>2
<1>2. /\ rq \in [Slots -> RequestStates]
      /\ UNCHANGED <<tokens, projects, now, sent, log, unlogged, withdrawn>>
      /\ rq' = [c \in Slots |->
                  IF rq[c].st \in {"free", "done"} THEN rq[c]
                  ELSE Closed(rq[c], IF c \in S THEN Aborted ELSE Lost)]
  BY <1>1 DEF Inv, TypeOK, ProcessEnds
<1>3. ASSUME NEW c \in Slots
      PROVE  /\ rq'[c] \in RequestStates
             /\ rq'[c] = rq[c] \/ \E code : Leaves(c, code)
  <2>1. CASE rq[c].st \in {"free", "done"} BY <1>2, <2>1
  <2>2. CASE rq[c].st \notin {"free", "done"}
    <3> DEFINE code == IF c \in S THEN Aborted ELSE Lost
    <3>1. rq'[c] = Closed(rq[c], code) BY <1>2, <2>2
    <3>2. code \in Statuses \cup {Lost, Aborted} OBVIOUS
    <3>3. Leaves(c, code) BY <1>1, <2>2, <3>1 DEF Leaves
    <3> QED BY <1>2, <3>1, <3>2, <3>3, SlotTypes
  <2> QED BY <2>1, <2>2
<1>4. rq' \in [Slots -> RequestStates] BY <1>2, <1>3
<1> QED BY <1>2, <1>3, <1>4, LeaveInv
-----------------------------------------------------------------------------
\* Every step of a client, the server, the CLI and the clock keeps the invariant.
LEMMA NextInv == Inv /\ [Next]_vars => Inv'
<1> SUFFICES ASSUME Inv, [Next]_vars PROVE Inv'
  OBVIOUS
<1>1. ASSUME NEW t \in Tokens, NEW name \in Names, NEW scope \in Projects \cup {None},
             NEW ttl \in TTLs \cup {None}, CliTokenCreate(t, name, scope, ttl)
      PROVE  Inv'
  BY <1>1, InsertGrows, OutsideStep DEF CliTokenCreate
<1>2. ASSUME NEW name \in Names, CliTokenRevoke(name) PROVE Inv'
  BY <1>2, RevokeGrows, OutsideStep DEF CliTokenRevoke
<1>3. ASSUME Tick PROVE Inv'
  <2>1. TokensGrow
    BY <1>3, NumbersAssumption
       DEF Tick, TokensGrow, Inv, TypeOK, WithdrawnRevoked, Issued
  <2> QED BY <1>3, <2>1, OutsideStep DEF Tick
<1>4. ASSUME NEW c \in Slots, Arrive(c) \/ Serve(c) \/ HangUp(c) \/ DatabaseFails(c)
      PROVE  Inv'
  BY <1>4, ArriveInv, ResolveNameInv, AuthenticateInv, PlainHandlers, HandleCreateInv,
     HandleSecretsInv, HandleListInv, HandleTokensInv, RecordInv, CloseInv,
     ProcessEndsInv DEF Serve, Handle
<1>5. ASSUME Crash PROVE Inv' BY <1>5, ProcessEndsInv
<1>6. CASE UNCHANGED vars
  BY <1>6, TableKept, OutsideStep DEF vars
<1> QED BY <1>1, <1>2, <1>3, <1>4, <1>5, <1>6 DEF Next, Cli

\* The invariant holds however requests, token commands, time, crashes and
\* failures of the database and of the log interleave.
THEOREM Invariance == Spec => []Inv
  BY InitInv, NextInv, PTL DEF Spec

\* The variables have their types: what is logged is a status that was answered.
THEOREM TypeCorrect == Spec => []TypeOK
<1>1. Inv => TypeOK BY DEF Inv
<1> QED BY <1>1, Invariance, PTL

\* A request whose token was expired or revoked when it arrived learns nothing
\* and gets 401, or 500 if the database fails (auth.rs, repo.rs).
THEOREM DeadTokensRefused == Spec => []DeadOnArrival
<1>1. Inv => DeadOnArrival BY DEF Inv, Barred, DeadOnArrival
<1> QED BY <1>1, Invariance, PTL

\* Every answer has one record, with its status and with no other name than the
\* token's, before the client gets it, unless the write failed (audit.rs).
THEOREM EveryAnswerAudited == Spec => []AnswersAudited
<1>1. Inv => AnswersAudited BY DEF Inv, Audited, AnswersAudited
<1> QED BY <1>1, Invariance, PTL

-----------------------------------------------------------------------------
(***************************************************************************)
(* Confinement                                                             *)
(***************************************************************************)
Exceeds(c) == /\ rq'[c] # rq[c]
              /\ \/ projects' # projects \/ tokens' # tokens
                 \/ rq'[c].seen \ rq[c].seen # {}

\* A handler works with the scope in the row of the token presented.
LEMMA AuthedScope ==
  ASSUME Inv, NEW c \in Slots, rq[c].st = "authed"
  PROVE  /\ rq[c].tok \in Issued
         /\ rq[c].auth.scope = tokens[rq[c].tok].scope
<1>1. /\ rq[c].tok \in Issued
      /\ rq[c].auth = [name |-> tokens[rq[c].tok].name,
                       scope |-> tokens[rq[c].tok].scope]
  BY DEF Inv, CarriesTruth
<1> QED BY <1>1

\* A handler step acts for its own request only, within the scope of its token.
LEMMA HandlerConfined ==
  ASSUME Inv, NEW c \in Slots,
         \/ HandleCreate(c) \/ HandleSecrets(c) \/ HandleListProjects(c)
         \/ HandleTokenRevoke(c) \/ \E t \in Tokens : HandleTokenCreate(c, t)
  PROVE  /\ \A d \in Slots \ {c} : rq'[d] = rq[d]
         /\ Confined(c)
<1> DEFINE scope == tokens[rq[c].tok].scope
<1>1. rq \in [Slots -> RequestStates] BY DEF Inv, TypeOK
<1>2. rq[c].st = "authed" /\ Refusal(rq[c]) = 0
  BY DEF HandleCreate, HandleSecrets, HandleListProjects, HandleTokenRevoke,
         HandleTokenCreate, Accepted
<1>3. Permitted(rq[c].op, rq[c].on, scope)
  BY <1>2, AuthedScope DEF Refusal, FlawCode
<1>4. rq[c].tok \in Issued /\ rq[c].auth.scope = scope BY <1>2, AuthedScope
<1>5. rq[c].seen = {} BY <1>2 DEF Inv, Progress
<1>6. CASE HandleCreate(c)
  <2>1. scope \in {None, rq[c].on}
    BY <1>3, <1>6 DEF HandleCreate, Accepted, Permitted, ProjectOps
  <2>2. /\ projects' = projects \cup {rq[c].on} /\ tokens' = tokens
        /\ rq'[c].seen = {} /\ \A d \in Slots \ {c} : rq'[d] = rq[d]
    BY <1>1, <1>5, <1>6 DEF HandleCreate, Handled, RequestStates
  <2> QED BY <1>4, <2>1, <2>2 DEF Confined
<1>7. CASE HandleSecrets(c)
  <2>1. scope \in {None, rq[c].on}
    BY <1>3, <1>7 DEF HandleSecrets, Accepted, Permitted, ProjectOps
  <2>2. /\ projects' = projects /\ tokens' = tokens
        /\ rq'[c].seen \subseteq {rq[c].on}
        /\ \A d \in Slots \ {c} : rq'[d] = rq[d]
    <3>1. PICK code : HandledSeen(c, code, {rq[c].on}) \/ Handled(c, code)
      BY <1>7, HandleSecretsFields
    <3>2. projects' = projects /\ tokens' = tokens BY <1>7 DEF HandleSecrets
    <3>3. CASE HandledSeen(c, code, {rq[c].on})
      BY <1>1, <3>2, <3>3 DEF HandledSeen, RequestStates
    <3>4. CASE Handled(c, code)
      BY <1>1, <1>5, <3>2, <3>4 DEF Handled, RequestStates
    <3> QED BY <3>1, <3>3, <3>4
  <2> QED BY <1>4, <2>1, <2>2 DEF Confined
<1>8. CASE HandleListProjects(c)
  <2>1. /\ projects' = projects /\ tokens' = tokens
        /\ rq'[c].seen = {x \in projects : scope \in {None, x}}
        /\ \A d \in Slots \ {c} : rq'[d] = rq[d]
    BY <1>1, <1>4, <1>8 DEF HandleListProjects, RequestStates
  <2> QED BY <1>4, <2>1 DEF Confined
<1>9. CASE HandleTokenRevoke(c) \/ \E t \in Tokens : HandleTokenCreate(c, t)
  <2>1. scope = None
    BY <1>3, <1>9 DEF HandleTokenRevoke, HandleTokenCreate, Accepted, Permitted,
                      ProjectOps, TokenOps
  <2>2. projects' = projects /\ \A d \in Slots \ {c} : rq'[d] = rq[d]
    BY <1>1, <1>9 DEF HandleTokenRevoke, HandleTokenCreate, Handled
  <2> QED BY <1>4, <2>1, <2>2 DEF Confined
<1> QED BY <1>6, <1>7, <1>8, <1>9

\* The other steps of requests tell nothing more and change no table.
LEMMA OthersTellNothing ==
  ASSUME Inv, NEW c \in Slots,
         \/ Arrive(c) \/ ResolveName(c) \/ Authenticate(c) \/ HandleOpen(c)
         \/ HandleRefuse(c) \/ HandleTokenList(c) \/ DatabaseFails(c)
         \/ Record(c) \/ Reply(c) \/ HangUp(c) \/ TtlOverflow(c) \/ Crash
  PROVE  \A d \in Slots : ~Exceeds(d)
<1>1. projects' = projects /\ tokens' = tokens
  BY DEF Arrive, ResolveName, Authenticate, HandleOpen, HandleRefuse, HandleTokenList,
         DatabaseFails, Record, Reply, HangUp, TtlOverflow, Crash, ProcessEnds
<1>2. rq \in [Slots -> RequestStates] BY DEF Inv, TypeOK
<1>3. \A d \in Slots : rq'[d].seen \subseteq rq[d].seen
  <2>1. CASE Arrive(c) BY <2>1, ArriveFields DEF OthersSame
  <2>2. CASE ResolveName(c)
    <3>1. PICK name : rq' = [rq EXCEPT ![c].st = "resolved", ![c].who = name]
      BY <2>2 DEF ResolveName
    <3> QED BY <1>2, <3>1 DEF RequestStates
  <2>3. CASE Authenticate(c)
    BY <1>2, <2>3 DEF Authenticate, Handled, RequestStates
  <2>4. CASE \/ HandleOpen(c) \/ HandleRefuse(c) \/ HandleTokenList(c)
             \/ DatabaseFails(c)
    <3>1. \E code : Handled(c, code)
      BY <2>4, Zenon DEF HandleOpen, HandleRefuse, HandleTokenList, DatabaseFails
    <3> QED BY <1>2, <3>1 DEF Handled, RequestStates
  <2>5. CASE Record(c) BY <1>2, <2>5 DEF Record, RequestStates
  <2>6. CASE Reply(c) \/ HangUp(c)
    BY <1>2, <2>6, ClosedFields DEF Reply, HangUp
  <2>7. CASE TtlOverflow(c) \/ Crash
    BY <1>2, <2>7, ClosedFields DEF TtlOverflow, Crash, ProcessEnds
  <2> QED BY <2>1, <2>2, <2>3, <2>4, <2>5, <2>6, <2>7
<1> QED BY <1>1, <1>3 DEF Exceeds

\* One step does nothing beyond the scope of the token it acts for.
LEMMA StepConfined ==
  Inv /\ [Next]_vars => [\A c \in Slots : Exceeds(c) => Confined(c)]_vars
<1> SUFFICES ASSUME Inv, Next, NEW c \in Slots, Exceeds(c)
             PROVE  Confined(c)
  OBVIOUS
<1>1. rq' # rq BY DEF Exceeds
<1>2. ~Cli /\ ~Tick BY <1>1 DEF Cli, Tick, CliTokenCreate, CliTokenRevoke
<1>3. PICK d \in Slots : Arrive(d) \/ Serve(d) \/ HangUp(d) \/ DatabaseFails(d) \/ Crash
  BY <1>2 DEF Next
<1>4. \/ HandleCreate(d) \/ HandleSecrets(d) \/ HandleListProjects(d)
      \/ HandleTokenRevoke(d) \/ \E t \in Tokens : HandleTokenCreate(d, t)
  BY <1>3, OthersTellNothing DEF Serve, Handle
<1>5. Confined(d) /\ \A x \in Slots \ {d} : rq'[x] = rq[x]
  BY <1>4, HandlerConfined
<1>6. c = d BY <1>5 DEF Exceeds
<1> QED BY <1>5, <1>6

\* What a step does for a request stays within the scope that the table has for
\* the token presented, for every interleaving (auth.rs, handlers.rs).
THEOREM ScopesConfine == Spec => Confinement
<1>1. Inv /\ [Next]_vars =>
        [\A c \in Slots :
           rq'[c] # rq[c] /\ (projects' # projects \/ tokens' # tokens
                               \/ rq'[c].seen \ rq[c].seen # {})
             => Confined(c)]_vars
  BY StepConfined DEF Exceeds
<1> QED BY <1>1, Invariance, PTL DEF Spec, Confinement
=============================================================================
