---------------------------- MODULE MCFirstStart ----------------------------
(***************************************************************************)
(* Instances of FirstStart.                                                *)
(***************************************************************************)
EXTENDS DemoData, TLC

\* A table of every release and one of version 3, and two of the columns: enough
\* for every order of two migrations.
SomeTables == << CreatedTables[1], CreatedTables[7] >>
SomeColumns == << AddedColumns[1], AddedColumns[2] >>

\* The script with two restaurants, one dish each, one order and one coupon.
LeftOut(row) ==
  row[2] \in {"burger_bam", "pending", "IUT50"} \/ (row[1] = "dish" /\ row[3] > 1)
SomeScript == SelectSeq(DemoScript, LAMBDA s : ~LeftOut(s.row))

\* No file yet, a file of an old release that nobody has registered in, and one
\* with users.
AnyFile ==
  { [schema |-> {}, users |-> FALSE],
    [schema |-> Parts \cap OldTables, users |-> FALSE],
    [schema |-> Parts \cap OldTables, users |-> TRUE] }

\* The processes are interchangeable.
Starters == Permutations(Processes)
=============================================================================
