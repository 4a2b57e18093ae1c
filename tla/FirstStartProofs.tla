-------------------------- MODULE FirstStartProofs --------------------------
(***************************************************************************)
(* Theorems about module FirstStart, for any number of processes and any   *)
(* schema, file and well-formed script.                                    *)
(***************************************************************************)
EXTENDS FirstStart, TLAPS

\* Positions of the three lists of statements.
LEMMA Lists ==
  /\ Len(Tables) \in Nat \ {0} /\ DOMAIN Tables = 1 .. Len(Tables)
  /\ Len(Columns) \in Nat \ {0} /\ DOMAIN Columns = 1 .. Len(Columns)
  /\ Len(Script) \in Nat \ {0} /\ DOMAIN Script = 1 .. Len(Script)
BY StartAssumption, ScriptAssumption DEF WellFormed

\* Every part of the schema is in one of the two lists, and every row in the script.
LEMMA Elements ==
  /\ \A k \in 1 .. Len(Tables) : Tables[k] \in Parts
  /\ \A k \in 1 .. Len(Columns) : Columns[k] \in Parts
  /\ \A x \in Parts : \/ \E k \in 1 .. Len(Tables) : x = Tables[k]
                      \/ \E k \in 1 .. Len(Columns) : x = Columns[k]
  /\ \A k \in 1 .. Len(Script) : Script[k].row \in Rows
  /\ \A r \in Rows : \E k \in 1 .. Len(Script) : r = Script[k].row
BY Lists DEF Parts, Rows, Range

-----------------------------------------------------------------------------
(***************************************************************************)
(* Types.                                                                  *)
(***************************************************************************)

\* How many statements each stage has.
LEMMA Lengths ==
  /\ Length("off") = 1 /\ Length("fresh") = 1 /\ Length("running") = 1
  /\ Length("tables") = Len(Tables) /\ Length("seed") = Len(Script)
  /\ Length("info") = Len(Columns) /\ Length("alter") = Len(Columns)
BY DEF Length

\* A process that starts, or that has nothing to count, stands at 1.
LEMMA LengthOne == \A s \in Stages : Length(s) \in Nat /\ 1 \in 1 .. Length(s)
BY Lists, Lengths DEF Stages

\* The position of a process that has nothing to count.
LEMMA AtOne ==
  ASSUME TypeOK, NEW p \in Processes, pc[p] \in {"off", "fresh", "running"}
  PROVE  at[p] = 1
BY Lengths DEF TypeOK

LEMMA AdvanceType ==
  ASSUME TypeOK, NEW p \in Processes, NEW next \in Stages,
         Advance(p, Length(pc[p]), next)
  PROVE  /\ pc' \in [Processes -> Stages] /\ at' \in [Processes -> Nat]
         /\ \A q \in Processes : at'[q] \in 1 .. Length(pc'[q])
<1> USE DEF TypeOK
<1>1. Length(pc[p]) \in Nat /\ at[p] \in 1 .. Length(pc[p]) /\ 1 \in 1 .. Length(next)
  BY LengthOne
<1>2. CASE at[p] < Length(pc[p])
  <2>1. at' = [at EXCEPT ![p] = @ + 1] /\ pc' = pc
    BY <1>2 DEF Advance
  <2>2. at[p] + 1 \in 1 .. Length(pc[p]) /\ at[p] + 1 \in Nat
    BY <1>1, <1>2
  <2> QED BY <2>1, <2>2
<1>3. CASE ~(at[p] < Length(pc[p]))
  <2>1. at' = [at EXCEPT ![p] = 1] /\ pc' = [pc EXCEPT ![p] = next]
    BY <1>3 DEF Advance
  <2> QED BY <1>1, <2>1
<1> QED BY <1>2, <1>3

LEMMA SeedType ==
  ASSUME TypeOK, NEW p \in Processes, Seed(p)
  PROVE  copies' \in [Rows -> [Processes -> Nat]]
<1>1. at[p] \in 1 .. Len(Script)
  BY DEF Seed, TypeOK, Length
<1>2. Script[at[p]].row \in Rows
  BY <1>1, Elements
<1> QED BY <1>2 DEF Seed, TypeOK

LEMMA TypeInit == Init => TypeOK
<1> SUFFICES ASSUME Init PROVE TypeOK
  OBVIOUS
<1>1. schema \in SUBSET Parts /\ old \in BOOLEAN
  BY StartAssumption DEF Init, File
<1>2. \A p \in Processes : at[p] \in 1 .. Length(pc[p])
  BY LengthOne DEF Init, Stages
<1> QED BY <1>1, <1>2 DEF Init, TypeOK, Stages

LEMMA TypeStep == TypeOK /\ [Next]_vars => TypeOK'
<1> SUFFICES ASSUME TypeOK, [Next]_vars PROVE TypeOK'
  OBVIOUS
<1>1. CASE UNCHANGED vars
  BY <1>1 DEF vars, TypeOK
<1>2. ASSUME NEW p \in Processes, Open(p) PROVE TypeOK'
  <2>1. at[p] = 1 /\ 1 \in 1 .. Length("tables")
    BY <1>2, AtOne, LengthOne DEF Open, Stages
  <2> QED BY <1>2, <2>1 DEF Open, TypeOK, Stages
<1>3. ASSUME NEW p \in Processes, CreateTables(p) PROVE TypeOK'
  <2>1. Length(pc[p]) = Len(Tables) /\ at[p] \in 1 .. Len(Tables)
    BY <1>3 DEF CreateTables, TypeOK, Length
  <2>2. Advance(p, Length(pc[p]), "info")
    BY <1>3, <2>1 DEF CreateTables
  <2>3. /\ pc' \in [Processes -> Stages] /\ at' \in [Processes -> Nat]
        /\ \A q \in Processes : at'[q] \in 1 .. Length(pc'[q])
    BY <2>2, AdvanceType DEF Stages
  <2>4. schema' \in SUBSET Parts
    BY <1>3, <2>1, Elements DEF CreateTables, TypeOK
  <2> QED BY <1>3, <2>3, <2>4 DEF CreateTables, TypeOK
<1>4. ASSUME NEW p \in Processes, TableInfo(p) PROVE TypeOK'
  <2>1. Length("alter") = Length("info")
    BY DEF Length
  <2> QED BY <1>4, <2>1 DEF TableInfo, TypeOK, Stages
<1>5. ASSUME NEW p \in Processes, AddColumnIfMissing(p) PROVE TypeOK'
  <2>1. Length("alter") = Len(Columns) /\ Length("info") = Len(Columns)
        /\ at[p] \in 1 .. Len(Columns) /\ 1 \in 1 .. Length("fresh")
    BY <1>5, LengthOne DEF AddColumnIfMissing, TypeOK, Length, Stages
  <2>2. schema' \in SUBSET Parts
    BY <1>5, <2>1, Elements DEF AddColumnIfMissing, TypeOK
  <2>3. /\ pc' \in [Processes -> Stages] /\ at' \in [Processes -> Nat]
        /\ \A q \in Processes : at'[q] \in 1 .. Length(pc'[q])
    <3>1. CASE at[p] < Len(Columns)
      <4>1. at[p] + 1 \in 1 .. Length("info") /\ at[p] + 1 \in Nat
        BY <2>1, <3>1, Lists
      <4>2. at' = [at EXCEPT ![p] = @ + 1] /\ pc' = [pc EXCEPT ![p] = "info"]
        BY <1>5, <3>1 DEF AddColumnIfMissing, NextColumn
      <4> QED BY <4>1, <4>2 DEF TypeOK, Stages
    <3>2. CASE ~(at[p] < Len(Columns))
      <4>1. at' = [at EXCEPT ![p] = 1] /\ pc' = [pc EXCEPT ![p] = "fresh"]
        BY <1>5, <3>2 DEF AddColumnIfMissing, NextColumn
      <4> QED BY <2>1, <4>1 DEF TypeOK, Stages
    <3> QED BY <3>1, <3>2
  <2> QED BY <1>5, <2>2, <2>3 DEF AddColumnIfMissing, TypeOK
<1>6. ASSUME NEW p \in Processes, CheckFresh(p) PROVE TypeOK'
  <2>1. at[p] = 1 /\ 1 \in 1 .. Length("seed") /\ 1 \in 1 .. Length("running")
    BY <1>6, AtOne, LengthOne DEF CheckFresh, Stages
  <2> QED BY <1>6, <2>1 DEF CheckFresh, TypeOK, Stages
<1>7. ASSUME NEW p \in Processes, Seed(p) PROVE TypeOK'
  <2>1. Advance(p, Length(pc[p]), "running")
    BY <1>7 DEF Seed, Length
  <2>2. /\ pc' \in [Processes -> Stages] /\ at' \in [Processes -> Nat]
        /\ \A q \in Processes : at'[q] \in 1 .. Length(pc'[q])
    BY <2>1, AdvanceType DEF Stages
  <2>3. copies' \in [Rows -> [Processes -> Nat]]
    BY <1>7, SeedType
  <2> QED BY <1>7, <2>2, <2>3 DEF Seed, TypeOK
<1>8. ASSUME NEW p \in Processes, Stop(p) PROVE TypeOK'
  BY <1>8, LengthOne DEF Stop, TypeOK, Stages
<1> QED BY <1>1, <1>2, <1>3, <1>4, <1>5, <1>6, <1>7, <1>8 DEF Next, Start

\* Every variable keeps its type, and no process runs off the end of a list.
THEOREM TypeCorrect == Spec => []TypeOK
BY TypeInit, TypeStep, PTL DEF Spec

-----------------------------------------------------------------------------
(***************************************************************************)
(* The schema.                                                             *)
(***************************************************************************)

\* What a process has behind it is in the file.
Migrated(p) ==
  /\ pc[p] = "tables" => \A k \in 1 .. at[p] - 1 : Tables[k] \in schema
  /\ pc[p] \in {"info", "alter"} =>
       /\ \A k \in 1 .. Len(Tables) : Tables[k] \in schema
       /\ \A k \in 1 .. at[p] - 1 : Columns[k] \in schema
  /\ pc[p] = "alter" => missing[p] \/ Columns[at[p]] \in schema
  /\ pc[p] \in {"fresh", "seed", "running"} => Parts \subseteq schema

Migration == \A p \in Processes : Migrated(p)

\* Nothing leaves the schema, so the progress of the others stands.
LEMMA OthersMigrated ==
  ASSUME TypeOK, Migration, NEW p \in Processes, schema \subseteq schema',
         \A q \in Processes \ {p} :
            pc'[q] = pc[q] /\ at'[q] = at[q] /\ missing'[q] = missing[q]
  PROVE  \A q \in Processes \ {p} : Migrated(q)'
BY DEF Migration, Migrated

LEMMA MigrationStep == TypeOK /\ Migration /\ [Next]_vars => Migration'
<1> SUFFICES ASSUME TypeOK, Migration, [Next]_vars PROVE Migration'
  OBVIOUS
<1>1. CASE UNCHANGED vars
  BY <1>1 DEF vars, Migration, Migrated
<1>2. SUFFICES ASSUME NEW p \in Processes, Start(p) \/ Stop(p) PROVE Migration'
  BY <1>1 DEF Next
<1>3. schema \subseteq schema'
  BY <1>2 DEF Start, Stop, Open, CreateTables, TableInfo, AddColumnIfMissing, CheckFresh, Seed
<1>4. \A q \in Processes \ {p} :
         pc'[q] = pc[q] /\ at'[q] = at[q] /\ missing'[q] = missing[q]
  BY <1>2 DEF TypeOK, Start, Stop, Open, CreateTables, TableInfo, AddColumnIfMissing,
              CheckFresh, Seed, Advance, NextColumn
<1>5. Migrated(p)
  BY DEF Migration
<1>6. Migrated(p)'
  <2>1. CASE Open(p)
    <3>1. at[p] = 1
      BY <2>1, AtOne DEF Open
    <3> QED BY <2>1, <3>1 DEF Open, TypeOK, Migrated
  <2>2. CASE CreateTables(p)
    <3>1. at[p] \in 1 .. Len(Tables)
      BY <2>2 DEF CreateTables, TypeOK, Length
    <3>2. \A k \in 1 .. at[p] : Tables[k] \in schema'
      BY <1>3, <1>5, <2>2, <3>1 DEF CreateTables, Migrated
    <3>3. CASE at[p] < Len(Tables)
      BY <2>2, <3>1, <3>2, <3>3 DEF CreateTables, Advance, TypeOK, Migrated
    <3>4. CASE ~(at[p] < Len(Tables))
      <4>1. at[p] = Len(Tables) /\ pc'[p] = "info" /\ at'[p] = 1
        BY <2>2, <3>1, <3>4, Lists DEF CreateTables, Advance, TypeOK
      <4> QED BY <3>2, <4>1 DEF Migrated
    <3> QED BY <3>3, <3>4
  <2>3. CASE TableInfo(p)
    BY <1>5, <2>3 DEF TableInfo, TypeOK, Migrated
  <2>4. CASE AddColumnIfMissing(p)
    <3>1. at[p] \in 1 .. Len(Columns)
      BY <2>4 DEF AddColumnIfMissing, TypeOK, Length
    <3>2. \A k \in 1 .. at[p] : Columns[k] \in schema'
      BY <1>3, <1>5, <2>4, <3>1 DEF AddColumnIfMissing, Migrated
    <3>3. \A k \in 1 .. Len(Tables) : Tables[k] \in schema'
      BY <1>3, <1>5, <2>4 DEF AddColumnIfMissing, Migrated
    <3>4. CASE at[p] < Len(Columns)
      BY <2>4, <3>1, <3>2, <3>3, <3>4 DEF AddColumnIfMissing, NextColumn, TypeOK, Migrated
    <3>5. CASE ~(at[p] < Len(Columns))
      <4>1. at[p] = Len(Columns) /\ pc'[p] = "fresh"
        BY <2>4, <3>1, <3>5, Lists DEF AddColumnIfMissing, NextColumn, TypeOK
      <4>2. Parts \subseteq schema'
        BY <3>2, <3>3, <4>1, Elements
      <4> QED BY <4>1, <4>2 DEF Migrated
    <3> QED BY <3>4, <3>5
  <2>5. CASE CheckFresh(p)
    BY <1>5, <2>5 DEF CheckFresh, TypeOK, Migrated
  <2>6. CASE Seed(p)
    BY <1>5, <2>6 DEF Seed, Advance, TypeOK, Migrated
  <2>7. CASE Stop(p)
    BY <2>7 DEF Stop, TypeOK, Migrated
  <2> QED BY <1>2, <2>1, <2>2, <2>3, <2>4, <2>5, <2>6, <2>7 DEF Start
<1> QED BY <1>3, <1>4, <1>6, OthersMigrated DEF Migration

\* Whoever gets to its first row has the whole schema, however many processes
\* migrate the file at once.
THEOREM SchemasAreComplete == Spec => []SchemaComplete
<1>1. Init => TypeOK /\ Migration
  BY TypeInit DEF Init, Migration, Migrated
<1>2. TypeOK /\ Migration /\ [Next]_vars => (TypeOK /\ Migration)'
  BY TypeStep, MigrationStep
<1>3. Migration => SchemaComplete
  BY DEF Migration, Migrated, SchemaComplete
<1> QED BY <1>1, <1>2, <1>3, PTL DEF Spec

-----------------------------------------------------------------------------
(***************************************************************************)
(* The demo data.                                                          *)
(***************************************************************************)

RowOf(k) == Script[k].row

\* A process in the middle of the script has everything before that point in the
\* file and has inserted nothing after it.
Behind(p) ==
  pc[p] = "seed" =>
    /\ p \in early
    /\ \A k \in 1 .. at[p] - 1 : Present(RowOf(k))
    /\ \A k \in at[p] .. Len(Script) : copies[RowOf(k)][p] = 0

\* Whatever is in the file, its first user is; that is why a seeding that was
\* interrupted is not taken up again.
Seeding ==
  /\ \A r \in Rows : Present(r) => Present(RowOf(1))
  /\ \A p \in Processes : Behind(p)
  /\ FinishedSeedingIsWhole
  /\ SeededByEarlyStarters

\* One statement of the script: its row is there afterwards, and if it was the
\* process itself that inserted it, it had not done so before.
LEMMA OneRow ==
  ASSUME TypeOK, Seeding, NEW p \in Processes, Seed(p)
  PROVE  /\ at[p] \in 1 .. Len(Script) /\ RowOf(at[p]) \in Rows
         /\ copies[RowOf(at[p])][p] = 0
         /\ \E q \in Processes : copies'[RowOf(at[p])][q] > 0
         /\ \/ copies' = copies
            \/ /\ copies' = [copies EXCEPT ![RowOf(at[p])][p] = 1]
               /\ ~(Script[at[p]].unique /\ Present(RowOf(at[p])))
<1> DEFINE s == Script[at[p]]
           fails == (s.unique /\ Present(s.row)) \/ \E r \in s.needs : ~Found(p, r)
<1>1. at[p] \in 1 .. Len(Script) /\ RowOf(at[p]) \in Rows
  BY Elements, Lengths DEF Seed, TypeOK, RowOf
<1>2. copies[RowOf(at[p])][p] = 0
  BY <1>1 DEF Seed, Seeding, Behind
<1>3. \A r \in s.needs : \E j \in 1 .. at[p] - 1 : RowOf(j) = r
  BY <1>1, Lists, ScriptAssumption DEF WellFormed, RowOf
<1>4. \A r \in s.needs : Found(p, r)
  BY <1>3 DEF Seed, Seeding, Behind, Found
<1>5. copies' = IF fails THEN copies ELSE [copies EXCEPT ![s.row][p] = @ + 1]
  BY DEF Seed
<1>6. CASE fails
  BY <1>1, <1>2, <1>4, <1>5, <1>6 DEF Present, RowOf
<1>7. CASE ~fails
  <2>1. copies' = [copies EXCEPT ![RowOf(at[p])][p] = 1]
    BY <1>1, <1>2, <1>5, <1>7 DEF RowOf, TypeOK
  <2>2. copies'[RowOf(at[p])][p] = 1
    BY <1>1, <2>1 DEF TypeOK
  <2> QED BY <1>1, <1>2, <1>7, <2>1, <2>2 DEF Present, RowOf
<1> QED BY <1>6, <1>7

\* No statement removes a row.
LEMMA RowsStay ==
  ASSUME TypeOK, Seeding, [Next]_vars
  PROVE  \A r \in Rows : Present(r) => Present(r)'
<1>1. copies' = copies \/ \E p \in Processes : Seed(p)
  BY DEF Next, Start, Stop, Open, CreateTables, TableInfo, AddColumnIfMissing, CheckFresh, vars
<1>2. CASE copies' = copies
  BY <1>2 DEF Present
<1>3. ASSUME NEW p \in Processes, Seed(p) PROVE \A r \in Rows : Present(r) => Present(r)'
  <2>1. CASE copies' = copies
    BY <2>1 DEF Present
  <2>2. CASE copies' = [copies EXCEPT ![RowOf(at[p])][p] = 1]
    <3>1. \A r \in Rows, q \in Processes : copies[r][q] > 0 => copies'[r][q] > 0
      BY <2>2 DEF TypeOK
    <3> QED BY <3>1 DEF Present
  <2> QED BY <1>3, <2>1, <2>2, OneRow
<1> QED BY <1>1, <1>2, <1>3

\* A file without a user of the script has no row of it.
LEMMA FreshIsEmpty ==
  ASSUME Seeding, IsFreshDatabase
  PROVE  ~old /\ \A r \in Rows : ~Present(r)
<1>1. ~Present(RowOf(1))
  BY Lists, ScriptAssumption DEF IsFreshDatabase, WellFormed, RowOf
<1> QED BY <1>1 DEF Seeding, IsFreshDatabase

LEMMA SeedingInit == Init => Seeding
<1> SUFFICES ASSUME Init PROVE Seeding
  OBVIOUS
<1>1. \A r \in Rows, p \in Processes : copies[r][p] = 0
  BY DEF Init
<1>2. \A k \in DOMAIN Script : Script[k].row \in Rows
  BY Elements, Lists
<1>3. SeededByEarlyStarters
  BY <1>1, <1>2 DEF Init, SeededByEarlyStarters
<1> QED BY <1>1, <1>3 DEF Init, Seeding, Behind, Present, FinishedSeedingIsWhole

\* A statement of the script keeps every copy but the process's own of its row.
LEMMA OtherCopies ==
  ASSUME TypeOK, Seeding, NEW p \in Processes, Seed(p)
  PROVE  /\ \A r \in Rows, q \in Processes :
               r # RowOf(at[p]) \/ q # p => copies'[r][q] = copies[r][q]
         /\ copies'[RowOf(at[p])][p] \in {0, 1}
<1>1. CASE copies' = copies
  BY <1>1, OneRow
<1>2. CASE copies' = [copies EXCEPT ![RowOf(at[p])][p] = 1]
  <2>1. RowOf(at[p]) \in Rows
    BY OneRow
  <2> QED BY <1>2, <2>1 DEF TypeOK
<1> QED BY <1>1, <1>2, OneRow

\* The process that executes a statement has one more of them behind it.
LEMMA BehindStep ==
  ASSUME TypeOK, Seeding, NEW p \in Processes, Seed(p)
  PROVE  /\ Behind(p)'
         /\ at[p] = Len(Script) => \A r \in Rows : Present(r)'
<1>1. /\ at[p] \in 1 .. Len(Script) /\ RowOf(at[p]) \in Rows
      /\ \E q \in Processes : copies'[RowOf(at[p])][q] > 0
  BY OneRow
<1>2. \A k \in 1 .. at[p] : \E q \in Processes : copies'[RowOf(k)][q] > 0
  <2>1. ASSUME NEW k \in 1 .. at[p] - 1 PROVE \E q \in Processes : copies'[RowOf(k)][q] > 0
    <3>1. RowOf(k) \in Rows
      BY <1>1, Elements DEF RowOf
    <3>2. RowOf(k) # RowOf(at[p])
      BY <1>1, Lists, ScriptAssumption DEF WellFormed, RowOf
    <3>3. Present(RowOf(k))
      BY DEF Seed, Seeding, Behind
    <3> QED BY <3>1, <3>2, <3>3, OtherCopies DEF Present
  <2> QED BY <1>1, <2>1
<1>3. \A k \in at[p] + 1 .. Len(Script) : copies'[RowOf(k)][p] = 0
  <2> SUFFICES ASSUME NEW k \in at[p] + 1 .. Len(Script) PROVE copies'[RowOf(k)][p] = 0
    OBVIOUS
  <2>1. RowOf(k) \in Rows /\ RowOf(k) # RowOf(at[p])
    BY <1>1, Elements, Lists, ScriptAssumption DEF WellFormed, RowOf
  <2>2. copies[RowOf(k)][p] = 0
    BY <1>1 DEF Seed, Seeding, Behind
  <2> QED BY <2>1, <2>2, OtherCopies
<1>4. Behind(p)'
  <2>1. CASE at[p] < Len(Script)
    <3>1. at'[p] = at[p] + 1 /\ early' = early /\ p \in early
      BY <2>1 DEF Seed, Advance, TypeOK, Seeding, Behind
    <3>2. at'[p] - 1 = at[p]
      BY <1>1, <3>1
    <3> QED BY <1>2, <1>3, <3>1, <3>2 DEF Behind, Present, RowOf
  <2>2. CASE ~(at[p] < Len(Script))
    BY <2>2 DEF Seed, Advance, TypeOK, Behind
  <2> QED BY <2>1, <2>2
<1>5. at[p] = Len(Script) => \A r \in Rows : Present(r)'
  BY <1>2, Elements DEF Present, RowOf
<1> QED BY <1>4, <1>5

LEMMA SeedStep ==
  ASSUME TypeOK, Seeding, NEW p \in Processes, Seed(p)
  PROVE  Seeding'
<1>1. /\ at[p] \in 1 .. Len(Script) /\ RowOf(at[p]) \in Rows
      /\ copies[RowOf(at[p])][p] = 0
  BY OneRow
<1>2. [Next]_vars
  BY DEF Next, Start
<1>3. \A r \in Rows : Present(r) => Present(r)'
  BY <1>2, RowsStay
<1>4. p \in early /\ early' = early /\ old' = old
  BY DEF Seed, Seeding, Behind
<1>5. RowOf(1) \in Rows
  BY Elements, Lists DEF RowOf
<1>6. \A r \in Rows : Present(r)' => Present(RowOf(1))'
  <2>1. CASE at[p] = 1
    <3>1. Present(Script[1].row)'
      BY <2>1, OneRow DEF Present, RowOf
    <3> QED BY <3>1 DEF RowOf
  <2>2. CASE at[p] # 1
    <3>1. Present(RowOf(1))
      BY <1>1, <2>2 DEF Seed, Seeding, Behind
    <3>2. Present(RowOf(1))'
      BY <1>3, <1>5, <3>1
    <3> QED BY <3>2
  <2> QED BY <2>1, <2>2
<1>7. \A q \in Processes : Behind(q)'
  <2> SUFFICES ASSUME NEW q \in Processes, q # p PROVE Behind(q)'
    BY BehindStep
  <2>1. pc'[q] = pc[q] /\ at'[q] = at[q]
    BY DEF Seed, Advance, TypeOK
  <2>2. \A r \in Rows : copies'[r][q] = copies[r][q]
    BY OtherCopies
  <2>3. pc[q] = "seed" => at[q] \in 1 .. Len(Script)
    BY Lengths DEF TypeOK
  <2>4. \A k \in 1 .. Len(Script) : RowOf(k) \in Rows
    BY Elements DEF RowOf
  <2>5. Behind(q)
    BY DEF Seeding
  <2>6. SUFFICES ASSUME pc[q] = "seed"
                 PROVE  /\ q \in early'
                        /\ \A k \in 1 .. at[q] - 1 : Present(RowOf(k))'
                        /\ \A k \in at[q] .. Len(Script) : copies'[RowOf(k)][q] = 0
    BY <2>1 DEF Behind, Present, RowOf
  <2>7. \A k \in 1 .. at[q] - 1 : k \in 1 .. Len(Script)
    BY <2>3, <2>6, Lists
  <2>8. \A k \in 1 .. at[q] - 1 : Present(RowOf(k))'
    BY <1>3, <2>4, <2>5, <2>6, <2>7 DEF Behind, RowOf
  <2>9. \A k \in at[q] .. Len(Script) : k \in 1 .. Len(Script)
    BY <2>3, <2>6, Lists
  <2> QED BY <1>4, <2>2, <2>4, <2>5, <2>6, <2>8, <2>9 DEF Behind
<1>8. FinishedSeedingIsWhole'
  BY <1>3, BehindStep DEF Seed, Seeding, FinishedSeedingIsWhole
<1>9. SeededByEarlyStarters'
  <2>1. \A r \in Rows, q \in Processes :
           copies'[r][q] > 0 => q \in early' /\ copies'[r][q] = 1
    BY <1>1, <1>4, OtherCopies DEF Seeding, SeededByEarlyStarters
  <2>2. \A k \in DOMAIN Script : Script[k].unique =>
           \A q1, q2 \in Processes :
              copies'[RowOf(k)][q1] > 0 /\ copies'[RowOf(k)][q2] > 0 => q1 = q2
    <3> SUFFICES ASSUME NEW k \in DOMAIN Script, Script[k].unique,
                        NEW q1 \in Processes, NEW q2 \in Processes,
                        copies'[RowOf(k)][q1] > 0, copies'[RowOf(k)][q2] > 0
                 PROVE  q1 = q2
      OBVIOUS
    <3>1. k \in 1 .. Len(Script) /\ RowOf(k) \in Rows
      BY Lists, Elements DEF RowOf
    <3>2. copies[RowOf(k)][q1] > 0 /\ copies[RowOf(k)][q2] > 0 => q1 = q2
      BY DEF Seeding, SeededByEarlyStarters, RowOf
    <3>3. CASE RowOf(k) # RowOf(at[p]) \/ copies' = copies
      BY <3>1, <3>2, <3>3, OtherCopies
    <3>4. CASE RowOf(k) = RowOf(at[p]) /\ copies' # copies
      <4>1. k = at[p]
        BY <1>1, <3>1, <3>4, Lists, ScriptAssumption DEF WellFormed, RowOf
      <4>2. ~Present(RowOf(at[p]))
        BY <3>4, <4>1, OneRow
      <4>3. \A q \in Processes \ {p} : ~(copies'[RowOf(k)][q] > 0)
        BY <3>1, <4>1, <4>2, OtherCopies DEF Present
      <4> QED BY <4>3
    <3> QED BY <3>3, <3>4
  <2> QED BY <1>4, <2>1, <2>2 DEF Seeding, SeededByEarlyStarters, RowOf
<1> QED BY <1>6, <1>7, <1>8, <1>9 DEF Seeding

LEMMA SeedingStep == TypeOK /\ Seeding /\ [Next]_vars => Seeding'
<1> SUFFICES ASSUME TypeOK, Seeding, [Next]_vars PROVE Seeding'
  OBVIOUS
<1>1. CASE UNCHANGED vars
  BY <1>1 DEF vars, Seeding, Behind, Present, FinishedSeedingIsWhole, SeededByEarlyStarters
<1>2. ASSUME NEW p \in Processes,
             Open(p) \/ CreateTables(p) \/ TableInfo(p) \/ AddColumnIfMissing(p) \/ Stop(p)
      PROVE  Seeding'
  <2>1. copies' = copies /\ old' = old /\ early' = early /\ finished' = finished
    BY <1>2 DEF Open, CreateTables, TableInfo, AddColumnIfMissing, Stop
  <2>2. \A q \in Processes : pc'[q] = "seed" => pc'[q] = pc[q] /\ at'[q] = at[q]
    BY <1>2 DEF TypeOK, Open, CreateTables, TableInfo, AddColumnIfMissing, Stop, Advance,
                NextColumn
  <2> QED BY <2>1, <2>2 DEF Seeding, Behind, Present, FinishedSeedingIsWhole,
                            SeededByEarlyStarters
<1>3. ASSUME NEW p \in Processes, CheckFresh(p) PROVE Seeding'
  <2>1. copies' = copies /\ old' = old /\ finished' = finished /\ at' = at
    BY <1>3 DEF CheckFresh
  <2>2. at[p] = 1
    BY <1>3, AtOne DEF CheckFresh
  <2>3. early \subseteq early' /\ (old => early' = early)
    BY <1>3 DEF CheckFresh
  <2>4. \A q \in Processes \ {p} : pc'[q] = pc[q]
    BY <1>3 DEF CheckFresh, TypeOK
  <2>5. CASE IsFreshDatabase
    <3>1. p \in early' /\ \A r \in Rows : ~Present(r)
      BY <1>3, <2>5, FreshIsEmpty DEF CheckFresh
    <3>2. \A r \in Rows : copies[r][p] = 0
      BY <3>1 DEF Present, TypeOK
    <3>3. \A k \in 1 .. Len(Script) : copies[RowOf(k)][p] = 0
      BY <3>2, Elements DEF RowOf
    <3>4. Behind(p)'
      BY <2>1, <2>2, <3>1, <3>3 DEF Behind, RowOf
    <3> QED BY <2>1, <2>3, <2>4, <3>4 DEF Seeding, Behind, Present, RowOf,
                     FinishedSeedingIsWhole, SeededByEarlyStarters
  <2>6. CASE ~IsFreshDatabase
    <3>1. pc'[p] # "seed"
      BY <1>3, <2>6 DEF CheckFresh, TypeOK
    <3> QED BY <2>1, <2>3, <2>4, <3>1 DEF Seeding, Behind, Present, RowOf,
                     FinishedSeedingIsWhole, SeededByEarlyStarters
  <2> QED BY <2>5, <2>6
<1> QED BY <1>1, <1>2, <1>3, SeedStep DEF Next, Start

\* A seeding that runs to its end leaves the whole script in the file, whoever
\* else was inserting the same rows or was killed half-way.
THEOREM SeedingsAreWhole == Spec => []FinishedSeedingIsWhole
<1>1. Init => TypeOK /\ Seeding
  BY TypeInit, SeedingInit
<1>2. TypeOK /\ Seeding /\ [Next]_vars => (TypeOK /\ Seeding)'
  BY TypeStep, SeedingStep
<1>3. Seeding => FinishedSeedingIsWhole
  BY DEF Seeding
<1> QED BY <1>1, <1>2, <1>3, PTL DEF Spec

\* Only processes that have found the file without a user or a demo row seed it,
\* each of them once.
THEOREM SeededOnceEach == Spec => []SeededByEarlyStarters
<1>1. Init => TypeOK /\ Seeding
  BY TypeInit, SeedingInit
<1>2. TypeOK /\ Seeding /\ [Next]_vars => (TypeOK /\ Seeding)'
  BY TypeStep, SeedingStep
<1>3. Seeding => SeededByEarlyStarters
  BY DEF Seeding
<1> QED BY <1>1, <1>2, <1>3, PTL DEF Spec
=============================================================================
