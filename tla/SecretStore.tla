----------------------------- MODULE SecretStore -----------------------------
(***************************************************************************)
(* What the secrets server promises its HTTP clients about projects and    *)
(* secrets, with encryption, processes, locks and SQLite left out.         *)
(*                                                                         *)
(* Every request takes effect at one instant between being sent and being  *)
(* answered.  A request answered 500, or lost because the server process   *)
(* went away (code 0), either took effect or did not; nothing else ever    *)
(* changes the store.  In particular rekeying, restarting and crashing are *)
(* not visible here.  Module Vault is shown to implement this module.      *)
(***************************************************************************)
EXTENDS Naturals

CONSTANTS Projects, SecretKeys, Values, Slots, None

VARIABLES projects,   \* the set of existing projects
          store,      \* store[<<project, key>>] = [val, ver], or None
          rq          \* rq[c] = the request in slot c

vars == <<projects, store, rq>>

Ids == Projects \X SecretKeys
Requests == [op : {"create", "get"}, id : Projects \X {None}, val : {None}]
              \cup [op : {"put"}, id : Ids, val : Values]
              \cup [op : {"delete"}, id : Ids, val : {None}]
NoMap == [k \in SecretKeys |-> None]
NoResult == [code |-> 0, ver |-> 0, map |-> NoMap]
Code(n) == [NoResult EXCEPT !.code = n]
FreeSlot == [st |-> "free", op |-> "get", id |-> None, val |-> None,
             res |-> NoResult]

Init == /\ projects = {}
        /\ store = [id \in Ids |-> None]
        /\ rq = [c \in Slots |-> FreeSlot]

Send(c, r) ==
  /\ rq[c].st \in {"free", "done"}
  /\ rq' = [rq EXCEPT ![c] = [st |-> "sent", op |-> r.op, id |-> r.id,
                              val |-> r.val, res |-> NoResult]]
  /\ UNCHANGED <<projects, store>>

Answer(c, r) == rq' = [rq EXCEPT ![c].st = "done", ![c].res = r]

\* The project named by a request must exist, or, for create, must not.
Refuse(c) ==
  /\ rq[c].st = "sent"
  /\ (rq[c].id[1] \in projects) <=> (rq[c].op = "create")
  /\ Answer(c, Code(IF rq[c].op = "create" THEN 409 ELSE 404))
  /\ UNCHANGED <<projects, store>>

Create(c) ==
  /\ rq[c].st = "sent" /\ rq[c].op = "create"
  /\ rq[c].id[1] \notin projects
  /\ projects' = projects \cup {rq[c].id[1]}
  /\ Answer(c, Code(201))
  /\ UNCHANGED store

Get(c) ==
  LET p == rq[c].id[1]
      value(k) == IF store[<<p, k>>] = None THEN None ELSE store[<<p, k>>].val
  IN  /\ rq[c].st = "sent" /\ rq[c].op = "get"
      /\ p \in projects
      /\ Answer(c, [Code(200) EXCEPT !.map = [k \in SecretKeys |-> value(k)]])
      /\ UNCHANGED <<projects, store>>

\* A write is applied first and answered later; the version it will report is
\* fixed when it is applied.
Put(c) ==
  LET id == rq[c].id
      ver == IF store[id] = None THEN 1 ELSE store[id].ver + 1
  IN  /\ rq[c].st = "sent" /\ rq[c].op = "put"
      /\ id[1] \in projects
      /\ store' = [store EXCEPT ![id] = [val |-> rq[c].val, ver |-> ver]]
      /\ rq' = [rq EXCEPT ![c].st = "applied",
                          ![c].res = [Code(200) EXCEPT !.ver = ver]]
      /\ UNCHANGED projects

Reply(c) ==
  /\ rq[c].st = "applied"
  /\ rq' = [rq EXCEPT ![c].st = "done"]
  /\ UNCHANGED <<projects, store>>

Delete(c) ==
  LET id == rq[c].id
  IN  /\ rq[c].st = "sent" /\ rq[c].op = "delete"
      /\ id[1] \in projects
      /\ Answer(c, Code(IF store[id] = None THEN 404 ELSE 204))
      /\ store' = [store EXCEPT ![id] = None]
      /\ UNCHANGED projects

\* The requests in S end without a usable answer, applied or not.
Abandon(S, code) ==
  /\ \A c \in S : rq[c].st \in {"sent", "applied"}
  /\ rq' = [c \in Slots |-> IF c \in S THEN [rq[c] EXCEPT !.st = "done",
                                                          !.res = Code(code)]
                                       ELSE rq[c]]
  /\ UNCHANGED <<projects, store>>

Next ==
  \/ \E c \in Slots :
       \/ \E r \in Requests : Send(c, r)
       \/ Refuse(c) \/ Create(c) \/ Get(c) \/ Put(c) \/ Reply(c) \/ Delete(c)
  \/ \E S \in SUBSET Slots, code \in {0, 500} : Abandon(S, code)

Spec == Init /\ [][Next]_vars
=============================================================================
