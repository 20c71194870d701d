----------------------------- MODULE Migration -----------------------------
(***************************************************************************)
(* db::open: every command opens the database for itself, creates the      *)
(* tables that are missing and adds the column expires_at to a table of    *)
(* tokens that was made before tokens could expire.  Token commands do not *)
(* take the lock file, so several processes migrate one database at a      *)
(* time.  Each statement commits by itself: a process may die, and another *)
(* one may act, between any two of them.                                   *)
(***************************************************************************)
EXTENDS Naturals, Sequences, FiniteSets

CONSTANTS Openers,     \* processes that open the database
          OldTokens,   \* tokens of a database from before token expiry
          NewTokens,
          None

ASSUME NoneIsNoToken == None \notin OldTokens \cup NewTokens
ASSUME OldAreNotNew == OldTokens \cap NewTokens = {}

VARIABLES
  tables,      \* the tables in the database
  hasExpiry,   \* whether table tokens has the column expires_at
  exp,         \* exp[t] = expires_at of token t, or None if t has no row
  at,          \* at[o] = where process o is in db::open
  created,     \* created[o] = CREATE statements that o has executed
  clashes      \* history: clashes[o] = times o met "duplicate column name"

vars == <<tables, hasExpiry, exp, at, created, clashes>>

Schema == <<"meta", "projects", "secrets", "tokens">>
FirstTables(n) == {Schema[i] : i \in 1..n}

\* An expiry: NULL, a time to come, or text that is no time at all.  A row of
\* a table without the column has "absent".
Expiries == {"null", "later", "blank", "absent"}

MaxClashes == 2    \* the counters stop here

Opening == {"create", "alter"}

\* "broken": a statement did not compile, for want of a table or a column.
TypeOK ==
  /\ tables \in SUBSET FirstTables(4)
  /\ hasExpiry \in BOOLEAN
  /\ exp \in [OldTokens \cup NewTokens -> Expiries \cup {None}]
  /\ at \in [Openers -> Opening \cup {"closed", "open", "failed", "broken"}]
  /\ created \in [Openers -> 0..4]
  /\ clashes \in [Openers -> 0..MaxClashes]

\* A database of an earlier version, with its tokens, or one whose creation got
\* as far as n tables (n = 0: no file yet; n = 4: a current one).
Init ==
  /\ \/ /\ tables = FirstTables(4) /\ hasExpiry = FALSE
        /\ exp = [t \in OldTokens \cup NewTokens |->
                    IF t \in OldTokens THEN "absent" ELSE None]
     \/ \E n \in 0..4 :
          /\ tables = FirstTables(n) /\ hasExpiry = (n = 4)
          /\ exp = [t \in OldTokens \cup NewTokens |-> None]
  /\ at = [o \in Openers |-> "closed"]
  /\ created = [o \in Openers |-> 0]
  /\ clashes = [o \in Openers |-> 0]

Goto(o, pc) == at' = [at EXCEPT ![o] = pc]

-----------------------------------------------------------------------------
Open(o) ==
  /\ at[o] \in {"closed", "failed"}
  /\ Goto(o, "create")
  /\ created' = [created EXCEPT ![o] = 0]
  /\ UNCHANGED <<tables, hasExpiry, exp, clashes>>

\* CREATE TABLE IF NOT EXISTS, one of the four.
Create(o) ==
  LET table == Schema[created[o] + 1]
  IN  /\ at[o] = "create" /\ created[o] < 4
      /\ tables' = tables \cup {table}
      /\ hasExpiry' = (hasExpiry \/ (table = "tokens" /\ table \notin tables))
      /\ created' = [created EXCEPT ![o] = @ + 1]
      /\ UNCHANGED <<exp, at, clashes>>

\* Mutant: the column is taken to be there, as in a database of this version.
column_exists_Assumed(o) ==
  /\ at[o] = "create" /\ created[o] = 4
  /\ Goto(o, "open")
  /\ UNCHANGED <<tables, hasExpiry, exp, created, clashes>>

\* Mutant: the column is added without a look at the table.
column_exists_NoLook(o) ==
  /\ at[o] = "create" /\ created[o] = 4
  /\ Goto(o, "alter")
  /\ UNCHANGED <<tables, hasExpiry, exp, created, clashes>>

column_exists(o) ==
  /\ at[o] = "create" /\ created[o] = 4
  /\ Goto(o, IF hasExpiry THEN "open" ELSE "alter")
  /\ UNCHANGED <<tables, hasExpiry, exp, created, clashes>>

\* Mutant: ADD COLUMN expires_at TEXT NOT NULL DEFAULT ''.
AddColumn_Default(o) ==
  /\ at[o] = "alter" /\ ~hasExpiry
  /\ hasExpiry' = TRUE
  /\ exp' = [t \in DOMAIN exp |-> IF exp[t] = None THEN None ELSE "blank"]
  /\ Goto(o, "open")
  /\ UNCHANGED <<tables, created, clashes>>

\* ALTER TABLE tokens ADD COLUMN: existing rows get NULL.
AddColumn(o) ==
  /\ at[o] = "alter" /\ ~hasExpiry
  /\ hasExpiry' = TRUE
  /\ exp' = [t \in DOMAIN exp |-> IF exp[t] = None THEN None ELSE "null"]
  /\ Goto(o, "open")
  /\ UNCHANGED <<tables, created, clashes>>

\* Mutant: the error is not returned, and the statement is tried again.
DuplicateColumn_Retries(o) ==
  /\ at[o] = "alter" /\ hasExpiry
  /\ clashes' = [clashes EXCEPT ![o] = IF @ < MaxClashes THEN @ + 1 ELSE @ - 1]
  /\ UNCHANGED <<tables, hasExpiry, exp, at, created>>

\* Another process added the column since this one looked: "duplicate column
\* name", and the command fails.
DuplicateColumn(o) ==
  /\ at[o] = "alter" /\ hasExpiry
  /\ Goto(o, "failed")
  /\ clashes' = [clashes EXCEPT ![o] = IF @ < MaxClashes THEN @ + 1 ELSE @]
  /\ UNCHANGED <<tables, hasExpiry, exp, created>>

\* SQLite gives up waiting for another process.
Busy(o) ==
  /\ at[o] \in Opening
  /\ \E q \in Openers \ {o} : at[q] # "closed"
  /\ Goto(o, "failed")
  /\ UNCHANGED <<tables, hasExpiry, exp, created, clashes>>

\* The command ends, or the process dies.
End(o) ==
  /\ at[o] # "closed"
  /\ Goto(o, "closed")
  /\ UNCHANGED <<tables, hasExpiry, exp, created, clashes>>

-----------------------------------------------------------------------------
\* insert_token names the column: without it the statement does not compile.
insert_token(o, t, e) ==
  /\ at[o] = "open" /\ t \in NewTokens /\ exp[t] = None
  /\ IF "tokens" \in tables /\ hasExpiry
       THEN exp' = [exp EXCEPT ![t] = e] /\ UNCHANGED at
       ELSE Goto(o, "broken") /\ UNCHANGED exp
  /\ UNCHANGED <<tables, hasExpiry, created, clashes>>

\* authenticate, of a token whose row is active: NULL never expires and what
\* cannot be parsed counts as expired.
Accepts(t) == exp[t] \in {"null", "later"}

OpenStep(o) == \/ Create(o) \/ column_exists(o)
               \/ AddColumn(o) \/ DuplicateColumn(o)

Next == \E o \in Openers :
  \/ Open(o) \/ OpenStep(o) \/ Busy(o) \/ End(o)
  \/ \E t \in NewTokens, e \in {"null", "later"} : insert_token(o, t, e)

Spec == Init /\ [][Next]_vars

\* A process that is opening the database goes on with it.
FairSpec == Spec /\ \A o \in Openers : WF_vars(OpenStep(o))

-----------------------------------------------------------------------------
(***************************************************************************)
(* Properties                                                              *)
(***************************************************************************)

\* A database that was opened is ready: whichever version or crashed creation
\* it comes from, and whoever migrates it at the same time, a process whose
\* db::open succeeded misses neither a table nor the column, and none of its
\* statements fails for want of one (db.rs, repo.rs).
OpenedIsReady ==
  \A o \in Openers : /\ at[o] = "open" => tables = FirstTables(4) /\ hasExpiry
                      /\ at[o] # "broken"

\* db.rs: "pre-existing tokens keep working": once anyone has opened the
\* database, every token of the old one is accepted, for ever.
OldTokensKeepWorking ==
  \A t \in OldTokens : exp[t] = None \/ (hasExpiry => Accepts(t))

\* The race for the column costs a command at most one failure: repeating it
\* cannot meet "duplicate column name" again, whatever died in between.
ClashAtMostOnce == \A o \in Openers : clashes[o] <= 1

\* db::open returns, with a connection or an error.
OpenEnds == \A o \in Openers : at[o] \in Opening ~> at[o] \notin Opening
=============================================================================
