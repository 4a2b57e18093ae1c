----------------------------- MODULE FirstStart -----------------------------
(***************************************************************************)
(* What every process does before it shows a window or listens             *)
(* (src/src/client/main.cpp, src/src/server/main.cpp): it opens the shared *)
(* file, creates what is missing of the schema and, if the file has no     *)
(* user, seeds the demo data.  Client and server are started in any order, *)
(* also at once, and may be killed at any point and started again.         *)
(*                                                                         *)
(* A step is one auto-committed SQL statement or one transaction.          *)
(***************************************************************************)
EXTENDS Integers, Sequences, Functions

CONSTANTS
  Processes,    \* the clients and the server
  Tables,       \* the CREATE statements, in their order
  Columns,      \* the columns added after the first release, in their order
  Script,       \* the statements of seedDemoData, in their order
  Files         \* what the file may be before the first start

Parts == Range(Tables) \cup Range(Columns)

\* A statement of the script inserts `row` (or sets a flag, which is a row
\* here) after looking up the rows it `needs`.  Rows of a table with a key are
\* `unique`: a second insert fails, and its result is ignored.
Rows == {Script[k].row : k \in DOMAIN Script}

File == [schema : SUBSET Parts, users : BOOLEAN]

ASSUME StartAssumption ==
  /\ Tables \in Seq(Range(Tables)) /\ Tables # <<>>
  /\ Columns \in Seq(Range(Columns)) /\ Columns # <<>>
  /\ Files \subseteq File

\* The rows of a script differ, each is inserted after those it needs, and the
\* first one is a user.
WellFormed(script) ==
  /\ script \in Seq(Range(script)) /\ script # <<>>
  /\ \A j, k \in DOMAIN script : script[j].row = script[k].row => j = k
  /\ \A k \in DOMAIN script : script[k].unique \in BOOLEAN /\ script[k].user \in BOOLEAN
  /\ \A k \in DOMAIN script :
        \A r \in script[k].needs : \E j \in 1 .. k - 1 : script[j].row = r
  /\ script[1].user

ASSUME ScriptAssumption == WellFormed(Script)

VARIABLES
  schema,       \* the tables and columns of the file
  old,          \* whether the file had users before the first start
  copies,       \* how often each process has inserted each row of the script
  pc,           \* what each process is doing
  at,           \* the statement it executes next
  missing,      \* what PRAGMA table_info has told it about the next column
  early,        \* history: who found the file without any demo row and user
  finished      \* history: who has executed the whole script

vars == <<schema, old, copies, pc, at, missing, early, finished>>

Init ==
  /\ \E f \in Files : schema = f.schema /\ old = f.users
  /\ copies = [r \in Rows |-> [p \in Processes |-> 0]]
  /\ pc = [p \in Processes |-> "off"]
  /\ at = [p \in Processes |-> 1]
  /\ missing = [p \in Processes |-> FALSE]
  /\ early = {} /\ finished = {}

Present(r) == \E p \in Processes : copies[r][p] > 0

-----------------------------------------------------------------------------

\* The next of `len` statements, or what follows the last one.
Advance(p, len, next) ==
  IF at[p] < len THEN at' = [at EXCEPT ![p] = @ + 1] /\ pc' = pc
                 ELSE at' = [at EXCEPT ![p] = 1] /\ pc' = [pc EXCEPT ![p] = next]

Open(p) ==
  /\ pc[p] = "off"
  /\ pc' = [pc EXCEPT ![p] = "tables"]
  /\ UNCHANGED <<schema, old, copies, at, missing, early, finished>>

\* CREATE ... IF NOT EXISTS
CreateTables(p) ==
  /\ pc[p] = "tables"
  /\ schema' = schema \cup {Tables[at[p]]}
  /\ Advance(p, Len(Tables), "info")
  /\ UNCHANGED <<old, copies, missing, early, finished>>

TableInfo(p) ==
  /\ pc[p] = "info"
  /\ missing' = [missing EXCEPT ![p] = Columns[at[p]] \notin schema]
  /\ pc' = [pc EXCEPT ![p] = "alter"]
  /\ UNCHANGED <<schema, old, copies, at, early, finished>>

\* What follows the last column, or the next one.
NextColumn(p) ==
  IF at[p] < Len(Columns)
  THEN at' = [at EXCEPT ![p] = @ + 1] /\ pc' = [pc EXCEPT ![p] = "info"]
  ELSE at' = [at EXCEPT ![p] = 1] /\ pc' = [pc EXCEPT ![p] = "fresh"]

\* Mutation: an ALTER that fails ends the migration.
AddColumnIfMissing_Aborts(p) ==
  /\ pc[p] = "alter"
  /\ IF missing[p] /\ Columns[at[p]] \in schema
     THEN /\ at' = [at EXCEPT ![p] = 1] /\ pc' = [pc EXCEPT ![p] = "fresh"]
          /\ schema' = schema
     ELSE /\ schema' = schema \cup (IF missing[p] THEN {Columns[at[p]]} ELSE {})
          /\ NextColumn(p)
  /\ UNCHANGED <<old, copies, missing, early, finished>>

\* ALTER fails if another process was faster; the result is ignored.
AddColumnIfMissing(p) ==
  /\ pc[p] = "alter"
  /\ schema' = schema \cup (IF missing[p] THEN {Columns[at[p]]} ELSE {})
  /\ NextColumn(p)
  /\ UNCHANGED <<old, copies, missing, early, finished>>

\* Mutation: the last row tells whether the data has been seeded.
IsFreshDatabase_ByLastRow == ~old /\ ~Present(Script[Len(Script)].row)

\* The table of users is empty.
IsFreshDatabase ==
  ~old /\ \A k \in DOMAIN Script : Script[k].user => ~Present(Script[k].row)

CheckFresh(p) ==
  /\ pc[p] = "fresh"
  /\ pc' = [pc EXCEPT ![p] = IF IsFreshDatabase THEN "seed" ELSE "running"]
  /\ early' = IF ~old /\ \A r \in Rows : ~Present(r) THEN early \cup {p} ELSE early
  /\ UNCHANGED <<schema, old, copies, at, missing, finished>>

\* Mutation: the id of a row is taken from the process's own INSERT.
Found_OwnInsert(p, r) == copies[r][p] > 0

\* getUserId finds a row whoever has inserted it.
Found(p, r) == Present(r)

Seed(p) ==
  LET s == Script[at[p]]
      fails == (s.unique /\ Present(s.row)) \/ \E r \in s.needs : ~Found(p, r)
  IN /\ pc[p] = "seed"
     /\ copies' = IF fails THEN copies ELSE [copies EXCEPT ![s.row][p] = @ + 1]
     /\ Advance(p, Len(Script), "running")
     /\ finished' = IF at[p] = Len(Script) THEN finished \cup {p} ELSE finished
     /\ UNCHANGED <<schema, old, missing, early>>

\* The process ends or is killed; `at` and `missing` are its local variables.
Stop(p) ==
  /\ pc[p] # "off"
  /\ pc' = [pc EXCEPT ![p] = "off"]
  /\ at' = [at EXCEPT ![p] = 1]
  /\ missing' = [missing EXCEPT ![p] = FALSE]
  /\ UNCHANGED <<schema, old, copies, early, finished>>

Start(p) ==
  Open(p) \/ CreateTables(p) \/ TableInfo(p) \/ AddColumnIfMissing(p) \/ CheckFresh(p) \/ Seed(p)

Next == \E p \in Processes : Start(p) \/ Stop(p)

Spec == Init /\ [][Next]_vars

-----------------------------------------------------------------------------
(***************************************************************************)
(* Properties.                                                             *)
(***************************************************************************)

Stages == {"off", "tables", "info", "alter", "fresh", "seed", "running"}

\* How many statements there are at a stage.
Length(stage) ==
  CASE stage = "tables" -> Len(Tables)
    [] stage \in {"info", "alter"} -> Len(Columns)
    [] stage = "seed" -> Len(Script)
    [] OTHER -> 1

TypeOK ==
  /\ schema \in SUBSET Parts /\ old \in BOOLEAN
  /\ copies \in [Rows -> [Processes -> Nat]]
  /\ pc \in [Processes -> Stages]
  /\ at \in [Processes -> Nat]
  /\ \A p \in Processes : at[p] \in 1 .. Length(pc[p])
  /\ missing \in [Processes -> BOOLEAN]
  /\ early \subseteq Processes /\ finished \subseteq Processes

\* No process reads or writes a row before the whole schema is there, whatever
\* version of the file it has found and whoever was migrating it at the same
\* time or was killed while doing so (databasehandler.cpp:164).
SchemaComplete ==
  \A p \in Processes : pc[p] \in {"fresh", "seed", "running"} => Parts \subseteq schema

\* After a seeding that was not interrupted every account, menu, order, coupon
\* and top-up of the script is there, although the inserts that another process
\* had been first with have failed (demodata.cpp:34).
FinishedSeedingIsWhole == finished # {} => \A r \in Rows : Present(r)

\* demodata.h:8 "Populates a fresh database": rows come only from processes that
\* found no user and no demo row, each inserts a row at most once however often
\* it is killed and started again, and a row with a key is there once.  Hence a
\* file that had users stays as it is, and copies of a top-up or a dish are due
\* to processes that were started at the same time.
SeededByEarlyStarters ==
  /\ \A r \in Rows, p \in Processes : copies[r][p] > 0 => p \in early /\ copies[r][p] = 1
  /\ \A k \in DOMAIN Script : Script[k].unique =>
       \A p, q \in Processes :
          copies[Script[k].row][p] > 0 /\ copies[Script[k].row][q] > 0 => p = q
  /\ old => early = {}
=============================================================================
