---------------------------- MODULE Transactions ----------------------------
(***************************************************************************)
(* The writing functions of DataBaseHandler on the SQLite connections of   *)
(* several processes that share one file (databasehandler.cpp:699-865).    *)
(*                                                                         *)
(* addOrderItems, submitReview, chargeWallet and payFromWallet run in a    *)
(* transaction; every other function is one auto-committed statement.  The *)
(* transaction is deferred: BEGIN takes no lock, the first write does, and *)
(* sees the file as it is then.  A function leaves early by rollback(),    *)
(* but returns the result of commit() as it is.  A COMMIT that fails with  *)
(* SQLITE_BUSY leaves the transaction open: from then on transaction()     *)
(* fails on this connection, single statements are written into the open   *)
(* transaction, and no code ever commits it or rolls it back.  It ends     *)
(* with the process, or when an error makes SQLite roll back by itself.    *)
(***************************************************************************)
EXTENDS Integers

CONSTANTS
  Processes, Users,
  Ops,      \* calls of writing functions, each made at most once
  Tx,       \* those that run in a transaction
  Owner,    \* the process that makes the call
  Of, Delta,  \* the wallet its first statement changes, and by how much
  Stmts,    \* the number of its writing statements
  Refers,   \* single-statement calls whose row it needs (a foreign key, or the
            \* row an UPDATE must affect)
  After,    \* calls that have answered true before this one is made
  NoOne

TransactionsAssumption ==
  /\ NoOne \notin Processes
  /\ Tx \subseteq Ops
  /\ Owner \in [Ops -> Processes]
  /\ Of \in [Ops -> Users]
  /\ Delta \in [Ops -> Int]
  /\ Stmts \in [Ops -> Nat \ {0}]
  /\ \A op \in Ops \ Tx : Stmts[op] = 1
  /\ Refers \in [Ops -> SUBSET (Ops \ Tx)]
  /\ After \in [Ops -> SUBSET Ops]
  /\ \A op \in Ops : After[op] \ Tx \subseteq Refers[op]
ASSUME TransactionsAssumption

VARIABLES
  file,     \* what is committed: users.balance and how many statements of each
            \* call have taken effect
  draft,    \* what the holder of the write lock sees instead
  writer,   \* the process whose connection holds the write lock, or NoOne
  open,     \* the processes whose connection has a transaction open
  answer    \* what each call has returned: "none" before it is made, "running",
            \* "yes", "no", or "lost" if its process died in or before it

vars == <<file, draft, writer, open, answer>>

Content == [balance : [Users -> Nat], rows : [Ops -> Nat]]

Init ==
  /\ file = [balance |-> [u \in Users |-> 0], rows |-> [op \in Ops |-> 0]]
  /\ draft = file
  /\ writer = NoOne
  /\ open = {}
  /\ answer = [op \in Ops |-> "none"]

\* What a statement of process p reads.
View(p) == IF writer = p THEN draft ELSE file

CanLock(p) == writer \in {NoOne, p}

\* The statement's WHERE clause and foreign keys hold in content d.
Accepts(d, op) ==
  /\ \A r \in Refers[op] : d.rows[r] > 0
  /\ d.rows[op] = 0 => d.balance[Of[op]] + Delta[op] >= 0

\* Content d after the next statement of op.
Executed(d, op) ==
  [balance |-> IF d.rows[op] = 0 THEN [d.balance EXCEPT ![Of[op]] = @ + Delta[op]]
                                 ELSE d.balance,
   rows |-> [d.rows EXCEPT ![op] = @ + 1]]

Answer(op, a) == answer' = [answer EXCEPT ![op] = a]

\* The caller goes on whatever the earlier calls have answered.
Due_ResultIgnored(op) ==
  /\ answer[op] = "none"
  /\ \A other \in Ops : Owner[other] = Owner[op] => answer[other] # "running"
  /\ \A a \in After[op] : answer[a] \in {"yes", "no"}

\* A process runs one function at a time and makes a call once those it depends
\* on have answered true.
Due(op) ==
  /\ answer[op] = "none"
  /\ \A other \in Ops : Owner[other] = Owner[op] => answer[other] # "running"
  /\ \A a \in After[op] : answer[a] = "yes"

\* Its result is ignored.
CanBegin_Ignored(p) == TRUE

\* transaction() fails on a connection that has a transaction open.
CanBegin(p) == p \notin open

Begin(op) ==
  /\ op \in Tx /\ Due(op)
  /\ CanBegin(Owner[op])
  /\ open' = open \cup {Owner[op]}
  /\ Answer(op, "running")
  /\ UNCHANGED <<file, draft, writer>>

BeginFails(op) ==
  /\ op \in Tx /\ Due(op)
  /\ ~CanBegin(Owner[op])
  /\ Answer(op, "no")
  /\ UNCHANGED <<file, draft, writer, open>>

Statement(op) ==
  LET p == Owner[op] IN
  /\ answer[op] = "running"
  /\ View(p).rows[op] < Stmts[op]
  /\ CanLock(p)
  /\ Accepts(View(p), op)
  /\ draft' = Executed(View(p), op)
  /\ writer' = p
  /\ UNCHANGED <<file, open, answer>>

\* The transaction of p ends without effect.
Discard(p) ==
  /\ open' = open \ {p}
  /\ writer' = IF writer = p THEN NoOne ELSE writer
  /\ draft' = IF writer = p THEN file ELSE draft
  /\ UNCHANGED file

\* The lock is taken, the WHERE clause finds no row, a key is missing, or the
\* statement fails for a reason of its own: rollback() and false.
StatementFails(op) ==
  /\ answer[op] = "running"
  /\ View(Owner[op]).rows[op] < Stmts[op]
  /\ Discard(Owner[op])
  /\ Answer(op, "no")

Finished(op) ==
  /\ answer[op] = "running"
  /\ View(Owner[op]).rows[op] = Stmts[op]

Commit(op) ==
  /\ Finished(op)
  /\ file' = draft
  /\ writer' = NoOne
  /\ open' = open \ {Owner[op]}
  /\ Answer(op, "yes")
  /\ UNCHANGED draft

\* commit() is called and true returned, whatever it says.
CommitFails_Ignored(op) ==
  /\ Finished(op)
  /\ Answer(op, "yes")
  /\ \/ UNCHANGED <<file, draft, writer, open>>
     \/ Discard(Owner[op])

\* commit() answers false: either the transaction stays open (SQLITE_BUSY, a
\* reader in another process) or SQLite has rolled it back (a full disk).
CommitFails(op) ==
  /\ Finished(op)
  /\ Answer(op, "no")
  /\ \/ UNCHANGED <<file, draft, writer, open>>
     \/ Discard(Owner[op])

\* One auto-committed statement, or one more in the transaction left open.
Single(op) ==
  LET p == Owner[op] IN
  /\ op \notin Tx /\ Due(op)
  /\ CanLock(p)
  /\ Accepts(View(p), op)
  /\ draft' = Executed(View(p), op)
  /\ IF p \in open THEN writer' = p /\ UNCHANGED file
                   ELSE UNCHANGED writer /\ file' = draft'
  /\ Answer(op, "yes")
  /\ UNCHANGED open

\* It fails; an error may take the open transaction along.
SingleFails(op) ==
  /\ op \notin Tx /\ Due(op)
  /\ Answer(op, "no")
  /\ \/ UNCHANGED <<file, draft, writer, open>>
     \/ Owner[op] \in open /\ Discard(Owner[op])

\* The process ends, possibly inside a function or between two calls that belong
\* together, and may be started again.
Interrupted(op) ==
  \/ answer[op] = "running"
  \/ answer[op] = "none" /\ \E a \in After[op] : Owner[a] = Owner[op] /\ answer[a] # "none"

\* Closing the connection commits what is left.
Die_Commits(p) ==
  /\ open' = open \ {p}
  /\ writer' = IF writer = p THEN NoOne ELSE writer
  /\ file' = IF writer = p THEN draft ELSE file
  /\ UNCHANGED draft
  /\ answer' = [op \in Ops |-> IF Owner[op] = p /\ Interrupted(op) THEN "lost" ELSE answer[op]]

Die(p) ==
  /\ Discard(p)
  /\ answer' = [op \in Ops |-> IF Owner[op] = p /\ Interrupted(op) THEN "lost" ELSE answer[op]]

Next ==
  \/ \E op \in Ops :
       \/ Begin(op) \/ BeginFails(op)
       \/ Statement(op) \/ StatementFails(op)
       \/ Commit(op) \/ CommitFails(op)
       \/ Single(op) \/ SingleFails(op)
  \/ \E p \in Processes : Die(p)

Spec == Init /\ [][Next]_vars
-----------------------------------------------------------------------------
TypeOK ==
  /\ file \in Content
  /\ draft \in Content
  /\ writer \in Processes \cup {NoOne}
  /\ open \subseteq Processes
  /\ answer \in [Ops -> {"none", "running", "yes", "no", "lost"}]

\* Calls with all their statements in the file.
Stored == { op \in Ops : file.rows[op] = Stmts[op] }

\* No reader of the file ever finds half a top-up, payment, review or order: of
\* each call the file holds every statement or none (PROTOCOL.md:207, "All
\* mutations go through transactional SQL").
FileIsWhole == \A op \in Ops : file.rows[op] \in {0, Stmts[op]}

\* A call that answered false takes no effect, at once or later, although a
\* failed COMMIT leaves its statements in a transaction that is still open and
\* goes on being written to.
RefusedNeverTakesEffect ==
  \A op \in Ops : answer[op] \in {"no", "lost"} => file.rows[op] = 0

\* A call that answered true is stored.  Only a single statement may be lost, and
\* only where an earlier transaction of its process had answered false.
AnsweredTrueIsStored ==
  \A op \in Ops : answer[op] = "yes" /\ op \notin Stored =>
    /\ op \notin Tx
    /\ \E other \in Tx : Owner[other] = Owner[op] /\ answer[other] = "no"

\* Money is taken only for an order whose row and items are in the file
\* (CHANGELOG.md:83 "only after the order and its items are safely persisted"):
\* everything a stored call was made after is stored as well.
PersistedInOrder == \A op \in Stored : After[op] \cup Refers[op] \subseteq Stored

\* The connections, locks and failing commits implement AtomicStore: every change
\* of the file is one whole call, answered true at that moment.
Promise ==
  INSTANCE AtomicStore WITH
    balance <- file.balance,
    done    <- Stored,
    answer  <- [op \in Ops |-> IF answer[op] = "running" THEN "none" ELSE answer[op]]
Atomicity == Promise!Spec
=============================================================================
