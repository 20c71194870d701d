-------------------------- MODULE MigrationProofs --------------------------
(***************************************************************************)
(* Proofs about db::open (module Migration), for any number of processes   *)
(* that open the database at a time and any tokens in it.                  *)
(***************************************************************************)
EXTENDS Migration, TLAPS

\* What a process knows of the database from where it is in db::open.  Tables
\* and the column are never dropped, so that others cannot make it untrue.
Reached(o) ==
  /\ at[o] = "create" => FirstTables(created[o]) \subseteq tables
  /\ at[o] \in {"alter", "open"} => tables = FirstTables(4)
  /\ at[o] = "open" => hasExpiry
  /\ at[o] # "broken"

\* The column is there for one who has met "duplicate column name", so it does
\* not get to ALTER TABLE again.
Clashed(o) ==
  /\ clashes[o] <= 1
  /\ clashes[o] = 1 => hasExpiry /\ at[o] # "alter"

\* The column and the rows are in table tokens.  Until the column is there an
\* old row is "absent"; the statement that adds it makes it NULL.
Rows ==
  /\ hasExpiry => "tokens" \in tables
  /\ \A t \in OldTokens \cup NewTokens : exp[t] # None => "tokens" \in tables
  /\ \A t \in OldTokens :
       exp[t] # None => exp[t] = IF hasExpiry THEN "null" ELSE "absent"

Inv == /\ TypeOK
       /\ Rows
       /\ \A o \in Openers : Reached(o) /\ Clashed(o)

-----------------------------------------------------------------------------
\* The tables of the schema, one by one.
LEMMA SchemaTables ==
  /\ FirstTables(0) = {}
  /\ FirstTables(4) = {"meta", "projects", "secrets", "tokens"}
  /\ \A n \in 0..3 : /\ FirstTables(n + 1) = FirstTables(n) \cup {Schema[n + 1]}
                     /\ FirstTables(n) \subseteq FirstTables(4)
                     /\ Schema[n + 1] \in FirstTables(4)
  /\ \A n \in 0..4 : /\ FirstTables(n) \subseteq FirstTables(4)
                     /\ ("tokens" \in FirstTables(n)) <=> (n = 4)
<1>1. /\ Schema[1] = "meta" /\ Schema[2] = "projects"
      /\ Schema[3] = "secrets" /\ Schema[4] = "tokens"
  BY DEF Schema
<1>2. \A n \in 0..4 : \A x : x \in FirstTables(n) <=>
        \/ n >= 1 /\ x = "meta"
        \/ n >= 2 /\ x = "projects"
        \/ n >= 3 /\ x = "secrets"
        \/ n = 4 /\ x = "tokens"
  <2> TAKE n \in 0..4
  <2> TAKE x
  <2>1. (x \in FirstTables(n)) <=> \E i \in 1..n : x = Schema[i]
    BY DEF FirstTables
  <2> QED BY <1>1, <2>1
<1>3. FirstTables(0) = {} BY <1>2
<1>4. FirstTables(4) = {"meta", "projects", "secrets", "tokens"} BY <1>2
<1>5. ASSUME NEW n \in 0..3
      PROVE  /\ FirstTables(n + 1) = FirstTables(n) \cup {Schema[n + 1]}
             /\ FirstTables(n) \subseteq FirstTables(4)
             /\ Schema[n + 1] \in FirstTables(4)
  <2>1. n = 0 \/ n = 1 \/ n = 2 \/ n = 3 OBVIOUS
  <2> QED BY <1>1, <1>2, <2>1
<1>6. ASSUME NEW n \in 0..4
      PROVE  /\ FirstTables(n) \subseteq FirstTables(4)
             /\ ("tokens" \in FirstTables(n)) <=> (n = 4)
  BY <1>2
<1> QED BY <1>3, <1>4, <1>5, <1>6

\* Every database that db::open may find satisfies the invariant.
LEMMA InitInv == Init => Inv
<1> SUFFICES ASSUME Init PROVE Inv
  OBVIOUS
<1>1. \/ /\ tables = FirstTables(4) /\ hasExpiry = FALSE
         /\ exp = [t \in OldTokens \cup NewTokens |->
                     IF t \in OldTokens THEN "absent" ELSE None]
      \/ \E n \in 0..4 :
           /\ tables = FirstTables(n) /\ hasExpiry = (n = 4)
           /\ exp = [t \in OldTokens \cup NewTokens |-> None]
  BY DEF Init
<1>2. TypeOK
  <2>1. tables \in SUBSET FirstTables(4) BY <1>1, SchemaTables
  <2>2. hasExpiry \in BOOLEAN BY <1>1
  <2>3. exp \in [OldTokens \cup NewTokens -> Expiries \cup {None}]
    BY <1>1 DEF Expiries
  <2>4. /\ at \in [Openers -> Opening \cup {"closed", "open", "failed", "broken"}]
        /\ created \in [Openers -> 0..4]
        /\ clashes \in [Openers -> 0..MaxClashes]
    BY DEF Init, MaxClashes
  <2> QED BY <2>1, <2>2, <2>3, <2>4 DEF TypeOK
<1>3. Rows
  BY <1>1, SchemaTables DEF Rows
<1>4. \A o \in Openers : Reached(o) /\ Clashed(o)
  BY DEF Init, Reached, Clashed
<1> QED BY <1>2, <1>3, <1>4 DEF Inv

-----------------------------------------------------------------------------
\* A step of one process that keeps the database as it is, or only adds to it,
\* keeps what the others know.
LEMMA OthersKeep ==
  ASSUME Inv, NEW o \in Openers, TypeOK', tables \subseteq tables',
         hasExpiry => hasExpiry',
         \A q \in Openers \ {o} : /\ at'[q] = at[q] /\ created'[q] = created[q]
                                  /\ clashes'[q] = clashes[q],
         Reached(o)', Clashed(o)'
  PROVE  \A q \in Openers : Reached(q)' /\ Clashed(q)'
<1> TAKE q \in Openers
<1>1. CASE q = o BY <1>1
<1>2. CASE q # o
  <2>1. Reached(q) /\ Clashed(q) BY DEF Inv
  <2>2. tables' \subseteq FirstTables(4)
    BY SchemaTables DEF TypeOK
  <2> QED BY <1>2, <2>1, <2>2 DEF Reached, Clashed
<1> QED BY <1>1, <1>2

\* db::open starts with no statement executed, and assumes nothing.
LEMMA OpenInv == ASSUME Inv, NEW o \in Openers, Open(o) PROVE Inv'
<1>1. TypeOK' BY DEF Inv, TypeOK, Open, Goto, Opening
<1>2. Rows' BY DEF Inv, Rows, Open
<1>3. Reached(o)' /\ Clashed(o)'
  BY SchemaTables DEF Inv, TypeOK, Reached, Clashed, Open, Goto
<1>4. \A q \in Openers : Reached(q)' /\ Clashed(q)'
  BY <1>1, <1>3, OthersKeep DEF Open, Goto, Inv, TypeOK
<1> QED BY <1>1, <1>2, <1>4 DEF Inv

\* A CREATE TABLE adds its table, and the column only to a table without rows.
LEMMA CreateInv == ASSUME Inv, NEW o \in Openers, Create(o) PROVE Inv'
<1> DEFINE n == created[o]
<1>1. n \in 0..3 BY DEF Inv, TypeOK, Create
<1>2. /\ tables' = tables \cup {Schema[n + 1]}
      /\ hasExpiry' = (hasExpiry \/ (Schema[n + 1] = "tokens"
                                      /\ Schema[n + 1] \notin tables))
      /\ created' = [created EXCEPT ![o] = n + 1]
      /\ at[o] = "create" /\ UNCHANGED <<exp, at, clashes>>
  BY DEF Create
<1>3. TypeOK'
  <2>1. tables' \in SUBSET FirstTables(4)
    BY <1>1, <1>2, SchemaTables DEF Inv, TypeOK
  <2>2. created' \in [Openers -> 0..4] BY <1>1, <1>2 DEF Inv, TypeOK
  <2>3. hasExpiry' \in BOOLEAN BY <1>2 DEF Inv, TypeOK
  <2> QED BY <1>2, <2>1, <2>2, <2>3 DEF Inv, TypeOK
<1>4. Rows'
  <2>1. CASE hasExpiry' = hasExpiry
    BY <1>2, <2>1 DEF Inv, Rows
  <2>2. CASE hasExpiry' # hasExpiry
    \* The table is new, so it has no rows.
    <3>1. ~hasExpiry /\ hasExpiry' /\ "tokens" \notin tables
      BY <1>2, <2>2 DEF Inv, TypeOK
    <3>2. "tokens" \in tables' BY <1>2, <3>1
    <3>3. \A t \in OldTokens \cup NewTokens : exp[t] = None
      BY <3>1 DEF Inv, Rows
    <3> QED BY <1>2, <3>1, <3>2, <3>3 DEF Rows
  <2> QED BY <2>1, <2>2
<1>5. Reached(o)' /\ Clashed(o)'
  <2>1. FirstTables(n) \subseteq tables /\ Clashed(o)
    BY <1>2 DEF Inv, Reached
  <2>2. created'[o] = n + 1 BY <1>2 DEF Inv, TypeOK
  <2>3. FirstTables(n + 1) \subseteq tables'
    BY <1>1, <1>2, <2>1, SchemaTables
  <2> QED BY <1>2, <2>1, <2>2, <2>3 DEF Reached, Clashed
<1>6. \A q \in Openers : Reached(q)' /\ Clashed(q)'
  BY <1>2, <1>3, <1>5, OthersKeep DEF Inv, TypeOK
<1> QED BY <1>3, <1>4, <1>6 DEF Inv

\* The look at the columns decides by a column that, once there, stays.
LEMMA ColumnExistsInv ==
  ASSUME Inv, NEW o \in Openers, column_exists(o) PROVE Inv'
<1>1. TypeOK' BY DEF Inv, TypeOK, column_exists, Goto, Opening
<1>2. Rows' BY DEF Inv, Rows, column_exists
<1>3. tables = FirstTables(4)
  BY DEF Inv, TypeOK, Reached, column_exists
<1>4. Reached(o)' /\ Clashed(o)'
  BY <1>3 DEF Inv, TypeOK, Reached, Clashed, column_exists, Goto
<1>5. \A q \in Openers : Reached(q)' /\ Clashed(q)'
  BY <1>1, <1>4, OthersKeep DEF column_exists, Goto, Inv, TypeOK
<1> QED BY <1>1, <1>2, <1>5 DEF Inv

\* ALTER TABLE makes every old row NULL in the step that makes the column.
LEMMA AddColumnInv == ASSUME Inv, NEW o \in Openers, AddColumn(o) PROVE Inv'
<1> DEFINE All == OldTokens \cup NewTokens
<1>1. /\ exp' = [t \in All |-> IF exp[t] = None THEN None ELSE "null"]
      /\ hasExpiry' = TRUE /\ ~hasExpiry /\ at[o] = "alter"
      /\ at' = [at EXCEPT ![o] = "open"] /\ UNCHANGED <<tables, created, clashes>>
  BY DEF Inv, TypeOK, AddColumn, Goto
<1>2. TypeOK'
  <2>1. exp' \in [All -> Expiries \cup {None}] BY <1>1 DEF Expiries
  <2> QED BY <1>1, <2>1 DEF Inv, TypeOK
<1>3. tables = FirstTables(4) BY <1>1 DEF Inv, Reached
<1>4. Rows' BY <1>1, <1>3, SchemaTables DEF Inv, Rows
<1>5. Reached(o)' /\ Clashed(o)'
  BY <1>1, <1>3 DEF Inv, TypeOK, Reached, Clashed
<1>6. \A q \in Openers : Reached(q)' /\ Clashed(q)'
  BY <1>1, <1>2, <1>5, OthersKeep DEF Inv, TypeOK
<1> QED BY <1>2, <1>4, <1>6 DEF Inv

\* The first "duplicate column name" of a process is its last.
LEMMA DuplicateColumnInv ==
  ASSUME Inv, NEW o \in Openers, DuplicateColumn(o) PROVE Inv'
<1>1. clashes[o] = 0 /\ clashes'[o] = 1
  BY DEF Inv, TypeOK, Clashed, MaxClashes, DuplicateColumn
<1>2. TypeOK' BY <1>1 DEF Inv, TypeOK, DuplicateColumn, Goto, MaxClashes
<1>3. Rows' BY DEF Inv, Rows, DuplicateColumn
<1>4. Reached(o)' /\ Clashed(o)'
  BY <1>1 DEF Inv, TypeOK, Reached, Clashed, DuplicateColumn, Goto
<1>5. \A q \in Openers : Reached(q)' /\ Clashed(q)'
  BY <1>2, <1>4, OthersKeep DEF DuplicateColumn, Goto, Inv, TypeOK
<1> QED BY <1>2, <1>3, <1>5 DEF Inv

\* A command that gives up, ends or dies leaves the database as it is.
LEMMA LeaveInv ==
  ASSUME Inv, NEW o \in Openers, Busy(o) \/ End(o) PROVE Inv'
<1>1. /\ \E pc \in {"failed", "closed"} : at' = [at EXCEPT ![o] = pc]
      /\ UNCHANGED <<tables, hasExpiry, exp, created, clashes>>
  BY DEF Busy, End, Goto
<1>2. TypeOK' BY <1>1 DEF Inv, TypeOK
<1>3. Rows' BY <1>1 DEF Inv, Rows
<1>4. Reached(o)' /\ Clashed(o)'
  BY <1>1 DEF Inv, TypeOK, Reached, Clashed
<1>5. \A q \in Openers : Reached(q)' /\ Clashed(q)'
  BY <1>1, <1>2, <1>4, OthersKeep DEF Inv, TypeOK
<1> QED BY <1>2, <1>3, <1>5 DEF Inv

\* The statement finds its table and its column, and touches no old row.
LEMMA InsertTokenInv ==
  ASSUME Inv, NEW o \in Openers, NEW t \in NewTokens,
         NEW e \in {"null", "later"}, insert_token(o, t, e)
  PROVE  Inv'
<1>1. tables = FirstTables(4) /\ hasExpiry
  BY DEF Inv, Reached, insert_token
<1>2. /\ exp' = [exp EXCEPT ![t] = e]
      /\ UNCHANGED <<tables, hasExpiry, at, created, clashes>>
  BY <1>1, SchemaTables DEF insert_token
<1>3. TypeOK' BY <1>2 DEF Inv, TypeOK, Expiries
<1>4. Rows'
  BY <1>1, <1>2, SchemaTables, OldAreNotNew DEF Inv, TypeOK, Rows
<1>5. \A q \in Openers : Reached(q)' /\ Clashed(q)'
  BY <1>2 DEF Inv, Reached, Clashed
<1> QED BY <1>3, <1>4, <1>5 DEF Inv

\* Every step of every process keeps the invariant.
LEMMA NextInv == Inv /\ [Next]_vars => Inv'
<1> SUFFICES ASSUME Inv, [Next]_vars PROVE Inv'
  OBVIOUS
<1>1. CASE Next
  <2>1. PICK o \in Openers :
          \/ Open(o) \/ OpenStep(o) \/ Busy(o) \/ End(o)
          \/ \E t \in NewTokens, e \in {"null", "later"} : insert_token(o, t, e)
    BY <1>1 DEF Next
  <2> QED
    BY <2>1, OpenInv, CreateInv, ColumnExistsInv, AddColumnInv,
       DuplicateColumnInv, LeaveInv, InsertTokenInv DEF OpenStep
<1>2. CASE UNCHANGED vars
  BY <1>2 DEF vars, Inv, TypeOK, Rows, Reached, Clashed
<1> QED BY <1>1, <1>2

\* The invariant holds whatever the processes do, in whatever order, and
\* wherever they die.
THEOREM Invariance == Spec => []Inv
  BY InitInv, NextInv, PTL DEF Spec

-----------------------------------------------------------------------------
\* The variables have their types: tables are those of the schema.
THEOREM TypeCorrect == Spec => []TypeOK
<1>1. Inv => TypeOK BY DEF Inv
<1> QED BY <1>1, Invariance, PTL

\* A process whose db::open succeeded has every table and the column, from
\* whatever database it started and whoever migrated it beside it (db.rs).
THEOREM OpenedDatabaseReady == Spec => []OpenedIsReady
<1>1. Inv => OpenedIsReady BY DEF Inv, Reached, OpenedIsReady
<1> QED BY <1>1, Invariance, PTL

\* No token of an old database is refused once the column is there: the ALTER
\* TABLE leaves NULL in its row, and nothing writes to that row again (db.rs:
\* "pre-existing tokens keep working").
THEOREM OldTokensAccepted == Spec => []OldTokensKeepWorking
<1>1. Inv => OldTokensKeepWorking
  BY DEF Inv, Rows, OldTokensKeepWorking, Accepts
<1> QED BY <1>1, Invariance, PTL

\* The race for the column fails a command at most once, for any number of
\* processes and of retries (db.rs, column_exists and ALTER TABLE).
THEOREM OneClash == Spec => []ClashAtMostOnce
<1>1. Inv => ClashAtMostOnce BY DEF Inv, Clashed, ClashAtMostOnce
<1> QED BY <1>1, Invariance, PTL
=============================================================================
