------------------------- MODULE TransactionsProofs -------------------------
(***************************************************************************)
(* Proofs about Transactions: what the calls answer is true, and the       *)
(* connections implement AtomicStore.                                      *)
(***************************************************************************)
EXTENDS Transactions, TLAPS

(***************************************************************************)
(* The inductive invariant.                                                *)
(***************************************************************************)
\* Only an open transaction holds the lock, and without one nobody sees anything
\* but the file.
Locks ==
  /\ writer # NoOne => writer \in open
  /\ writer = NoOne => draft = file

\* What the transaction of the running call op has written: its own statements on
\* top of the file.
OwnDraft(op) ==
  /\ draft.rows[op] \in 1..Stmts[op]
  /\ draft.rows = [file.rows EXCEPT ![op] = draft.rows[op]]
  /\ draft.balance = [file.balance EXCEPT ![Of[op]] = @ + Delta[op]]
  /\ \A r \in Refers[op] : file.rows[r] > 0

\* A process that runs a call has begun its transaction for it.
RunningOk ==
  \A op \in Ops : answer[op] = "running" =>
    /\ op \in Tx
    /\ Owner[op] \in open
    /\ \A other \in Ops :
         Owner[other] = Owner[op] /\ answer[other] = "running" => other = op
    /\ \A a \in After[op] : answer[a] = "yes"
    /\ writer = Owner[op] => OwnDraft(op)

\* The file holds whole calls that have answered true, and every transaction that did.
FileOk ==
  \A op \in Ops :
    /\ file.rows[op] \in {0, Stmts[op]}
    /\ file.rows[op] # 0 => answer[op] = "yes"
    /\ answer[op] = "yes" /\ op \in Tx => file.rows[op] = Stmts[op]

\* A transaction left open is one whose call has answered false.
Stuck ==
  \A p \in open :
    \/ \E op \in Ops : Owner[op] = p /\ answer[op] = "running"
    \/ \E op \in Tx : Owner[op] = p /\ answer[op] = "no"

Inv ==
  /\ TypeOK
  /\ Locks
  /\ RunningOk
  /\ FileOk
  /\ Stuck
  /\ PersistedInOrder
  /\ AnsweredTrueIsStored

USE TransactionsAssumption DEF TransactionsAssumption

\* What a process sees is content of a file.
LEMMA ViewTyped ==
  ASSUME TypeOK, NEW p
  PROVE  View(p) \in Content
  BY DEF TypeOK, View

\* A statement that is accepted keeps the content well formed, counts itself, moves
\* the wallet if it is the first of its call, and touches nothing else.
LEMMA ExecutedContent ==
  ASSUME NEW d \in Content, NEW op \in Ops, Accepts(d, op)
  PROVE  /\ Executed(d, op) \in Content
         /\ Executed(d, op).rows = [d.rows EXCEPT ![op] = d.rows[op] + 1]
         /\ d.rows[op] = 0 =>
              Executed(d, op).balance = [d.balance EXCEPT ![Of[op]] = @ + Delta[op]]
         /\ d.rows[op] # 0 => Executed(d, op).balance = d.balance
<1>1. d.rows \in [Ops -> Nat] /\ d.balance \in [Users -> Nat]
  BY DEF Content
<1>2. [d.rows EXCEPT ![op] = @ + 1] \in [Ops -> Nat]
  BY <1>1
<1>3. d.rows[op] = 0 => [d.balance EXCEPT ![Of[op]] = @ + Delta[op]] \in [Users -> Nat]
  <2>1. SUFFICES ASSUME d.rows[op] = 0
                 PROVE  [d.balance EXCEPT ![Of[op]] = @ + Delta[op]] \in [Users -> Nat]
    OBVIOUS
  <2>2. d.balance[Of[op]] + Delta[op] \in Nat
    BY <1>1, <2>1 DEF Accepts
  <2>3. QED
    BY <1>1, <2>2
<1>4. QED
  BY <1>1, <1>2, <1>3 DEF Executed, Content

LEMMA InitInv == Init => Inv
<1>1. SUFFICES ASSUME Init PROVE Inv
  OBVIOUS
<1>2. TypeOK
  BY <1>1 DEF Init, TypeOK, Content
<1>3. \A op \in Ops : answer[op] = "none" /\ file.rows[op] = 0
  BY <1>1 DEF Init
<1>4. Stored = {}
  BY <1>3 DEF Stored
<1>5. QED
  BY <1>1, <1>2, <1>3, <1>4
     DEF Init, Inv, Locks, RunningOk, FileOk, Stuck, PersistedInOrder, AnsweredTrueIsStored

(***************************************************************************)
(* Steps that leave the file as it is.                                     *)
(***************************************************************************)
\* As long as the file stays and no answer "yes" is taken back, what is stored and
\* what that says about the answers stays as well.
LEMMA FileKept ==
  ASSUME Inv, UNCHANGED file,
         \A op \in Ops : answer[op] = "yes" => answer'[op] = "yes",
         \A op \in Tx : answer'[op] = "yes" => answer[op] = "yes"
  PROVE  FileOk' /\ PersistedInOrder'
  BY DEF Inv, FileOk, PersistedInOrder, Stored

\* If moreover no new "yes" is given without a refused transaction before it, acknowledged
\* calls are still accounted for.
LEMMA HonestyKept ==
  ASSUME Inv, UNCHANGED file,
         \A op \in Tx : answer[op] = "no" => answer'[op] = "no",
         \A op \in Ops : answer'[op] = "yes" =>
           \/ answer[op] = "yes"
           \/ /\ op \notin Tx
              /\ \E other \in Tx : Owner[other] = Owner[op] /\ answer[other] = "no"
  PROVE  AnsweredTrueIsStored'
<1>1. SUFFICES ASSUME NEW op \in Ops, answer'[op] = "yes", op \notin Stored
               PROVE  /\ op \notin Tx
                      /\ \E other \in Tx : Owner[other] = Owner[op] /\ answer'[other] = "no"
  BY DEF AnsweredTrueIsStored, Stored
<1>2. op \notin Tx /\ \E other \in Tx : Owner[other] = Owner[op] /\ answer[other] = "no"
  BY <1>1 DEF Inv, AnsweredTrueIsStored
<1>3. QED
  BY <1>2

\* Changing one answer.
LEMMA Answered ==
  ASSUME TypeOK, NEW op \in Ops, NEW a \in {"running", "yes", "no", "lost"}, Answer(op, a)
  PROVE  /\ answer' \in [Ops -> {"none", "running", "yes", "no", "lost"}]
         /\ answer'[op] = a
         /\ \A other \in Ops : other # op => answer'[other] = answer[other]
  BY DEF TypeOK, Answer

LEMMA BeginInv ==
  ASSUME Inv, NEW op \in Ops, Begin(op)
  PROVE  Inv'
<1>1. /\ op \in Tx /\ answer[op] = "none" /\ Owner[op] \notin open
      /\ open' = open \cup {Owner[op]}
      /\ UNCHANGED <<file, draft, writer>>
      /\ \A other \in Ops : Owner[other] = Owner[op] => answer[other] # "running"
      /\ \A a \in After[op] : answer[a] = "yes"
  BY DEF Begin, Due, CanBegin
<1>2. /\ answer' \in [Ops -> {"none", "running", "yes", "no", "lost"}]
      /\ answer'[op] = "running"
      /\ \A other \in Ops : other # op => answer'[other] = answer[other]
  BY Answered DEF Begin, Inv
<1>3. TypeOK'
  BY <1>1, <1>2 DEF Inv, TypeOK
<1>4. Locks'
  BY <1>1 DEF Inv, Locks
<1>5. RunningOk'
  <2>1. writer # Owner[op]
    BY <1>1 DEF Inv, Locks
  <2>2. SUFFICES ASSUME NEW o \in Ops, answer'[o] = "running"
                 PROVE  /\ o \in Tx
                        /\ Owner[o] \in open'
                        /\ \A other \in Ops :
                             Owner[other] = Owner[o] /\ answer'[other] = "running" => other = o
                        /\ \A a \in After[o] : answer'[a] = "yes"
                        /\ writer' = Owner[o] => OwnDraft(o)'
    BY DEF RunningOk
  <2>3. CASE o = op
    BY <1>1, <1>2, <2>1, <2>3
  <2>4. CASE o # op
    BY <1>1, <1>2, <2>2, <2>4 DEF Inv, RunningOk, OwnDraft
  <2>5. QED
    BY <2>3, <2>4
<1>6. FileOk' /\ PersistedInOrder'
  BY <1>1, <1>2, FileKept
<1>7. Stuck'
  BY <1>1, <1>2 DEF Inv, Stuck
<1>8. AnsweredTrueIsStored'
  BY <1>1, <1>2, HonestyKept
<1>9. QED
  BY <1>3, <1>4, <1>5, <1>6, <1>7, <1>8 DEF Inv

\* A call that has not run answers false and changes nothing else.
LEMMA RefusedAtOnceInv ==
  ASSUME Inv, NEW op \in Ops, answer[op] = "none", Answer(op, "no"),
         UNCHANGED <<file, draft, writer, open>>
  PROVE  Inv'
<1>1. /\ answer' \in [Ops -> {"none", "running", "yes", "no", "lost"}]
      /\ answer'[op] = "no"
      /\ \A other \in Ops : other # op => answer'[other] = answer[other]
  BY Answered DEF Inv
<1>2. TypeOK' /\ Locks'
  BY <1>1 DEF Inv, TypeOK, Locks
<1>3. RunningOk'
  BY <1>1 DEF Inv, RunningOk, OwnDraft
<1>4. FileOk' /\ PersistedInOrder'
  BY <1>1, FileKept
<1>5. Stuck'
  BY <1>1 DEF Inv, Stuck
<1>6. AnsweredTrueIsStored'
  BY <1>1, HonestyKept
<1>7. QED
  BY <1>2, <1>3, <1>4, <1>5, <1>6 DEF Inv

LEMMA StatementInv ==
  ASSUME Inv, NEW op \in Ops, Statement(op)
  PROVE  Inv'
<1> DEFINE p == Owner[op]
<1> DEFINE d == View(p)
<1>1. /\ answer[op] = "running" /\ d.rows[op] < Stmts[op]
      /\ CanLock(p) /\ Accepts(d, op)
      /\ draft' = Executed(d, op) /\ writer' = p
      /\ UNCHANGED <<file, open, answer>>
  BY DEF Statement
<1>2. d \in Content
  BY ViewTyped DEF Inv
<1>3. /\ draft' \in Content
      /\ draft'.rows = [d.rows EXCEPT ![op] = d.rows[op] + 1]
      /\ d.rows[op] = 0 => draft'.balance = [d.balance EXCEPT ![Of[op]] = @ + Delta[op]]
      /\ d.rows[op] # 0 => draft'.balance = d.balance
  <2> HIDE DEF d
  <2>1. QED
    BY <1>1, <1>2, ExecutedContent
<1>4. TypeOK'
  BY <1>1, <1>3 DEF Inv, TypeOK
<1>5. p \in open /\ p \in Processes /\ op \in Tx
  BY <1>1 DEF Inv, RunningOk
<1>6. Locks'
  BY <1>1, <1>5 DEF Locks
<1>7. OwnDraft(op)'
  <2>1. file.rows[op] = 0
    BY <1>1 DEF Inv, FileOk
  <2>2. file.rows \in [Ops -> Nat] /\ file.balance \in [Users -> Nat]
    BY DEF Inv, TypeOK, Content
  <2>3. \A r \in Refers[op] : r \in Ops /\ r # op
    BY <1>5
  <2>4. CASE writer = NoOne
    <3>1. d = file
      BY <1>5, <2>4 DEF View
    <3>2. draft'.rows = [file.rows EXCEPT ![op] = 1]
      BY <1>3, <2>1, <3>1
    <3>3. draft'.balance = [file.balance EXCEPT ![Of[op]] = @ + Delta[op]]
      BY <1>3, <2>1, <3>1
    <3>4. \A r \in Refers[op] : file.rows[r] > 0
      BY <1>1, <3>1 DEF Accepts
    <3>5. QED
      BY <1>1, <2>2, <3>2, <3>3, <3>4 DEF OwnDraft
  <2>5. CASE writer = p
    <3>1. d = draft /\ OwnDraft(op)
      BY <1>1, <2>5 DEF View, Inv, RunningOk
    <3>2. draft.rows[op] \in 1..Stmts[op] /\ draft.rows[op] + 1 \in 1..Stmts[op]
      BY <1>1, <3>1 DEF OwnDraft
    <3>3. draft'.rows = [draft.rows EXCEPT ![op] = draft.rows[op] + 1]
      BY <1>3, <3>1
    <3>4. draft'.rows = [file.rows EXCEPT ![op] = draft.rows[op] + 1]
      BY <2>2, <3>1, <3>3 DEF OwnDraft
    <3>5. draft'.balance = draft.balance
      BY <1>3, <3>1, <3>2
    <3>6. QED
      BY <1>1, <2>2, <3>1, <3>2, <3>4, <3>5 DEF OwnDraft
  <2>6. QED
    BY <1>1, <2>4, <2>5 DEF CanLock
<1>8. RunningOk'
  <2>1. \A o \in Ops : answer[o] = "running" /\ o # op => Owner[o] # p
    BY <1>1 DEF Inv, RunningOk
  <2>2. QED
    BY <1>1, <1>7, <2>1 DEF Inv, RunningOk
<1>9. FileOk' /\ PersistedInOrder'
  BY <1>1, FileKept
<1>10. Stuck'
  BY <1>1 DEF Inv, Stuck
<1>11. AnsweredTrueIsStored'
  BY <1>1, HonestyKept
<1>12. QED
  BY <1>4, <1>6, <1>8, <1>9, <1>10, <1>11 DEF Inv

\* The transaction of p is given up: of its calls only one was running, and that one
\* answers something else than "yes".
LEMMA DiscardInv ==
  ASSUME Inv, NEW p \in Processes, Discard(p),
         answer' \in [Ops -> {"none", "running", "yes", "no", "lost"}],
         \A op \in Ops : Owner[op] = p => answer'[op] # "running",
         \A op \in Ops : answer'[op] = "running" => answer[op] = "running",
         \A op \in Ops : Owner[op] # p => answer'[op] = answer[op],
         \A op \in Ops : answer[op] \in {"yes", "no"} => answer'[op] = answer[op],
         \A op \in Ops : answer'[op] = "yes" => answer[op] = "yes"
  PROVE  Inv'
<1>1. /\ open' = open \ {p}
      /\ writer' = IF writer = p THEN NoOne ELSE writer
      /\ draft' = IF writer = p THEN file ELSE draft
      /\ UNCHANGED file
  BY DEF Discard
<1>2. TypeOK'
  BY <1>1 DEF Inv, TypeOK
<1>3. Locks'
  BY <1>1 DEF Inv, Locks
<1>4. RunningOk'
  <2>1. SUFFICES ASSUME NEW o \in Ops, answer'[o] = "running"
                 PROVE  /\ o \in Tx
                        /\ Owner[o] \in open'
                        /\ \A other \in Ops :
                             Owner[other] = Owner[o] /\ answer'[other] = "running" => other = o
                        /\ \A a \in After[o] : answer'[a] = "yes"
                        /\ writer' = Owner[o] => OwnDraft(o)'
    BY DEF RunningOk
  <2>2. Owner[o] # p /\ Owner[o] \in Processes /\ answer[o] = "running"
    BY <2>1
  <2>3. writer' = Owner[o] => writer = Owner[o] /\ draft' = draft
    BY <1>1, <2>2
  <2>4. \A a \in After[o] : a \in Ops
    BY <2>1
  <2>5. QED
    BY <1>1, <2>2, <2>3, <2>4 DEF Inv, RunningOk, OwnDraft
<1>5. FileOk' /\ PersistedInOrder'
  BY <1>1, FileKept
<1>6. Stuck'
  <2>1. SUFFICES ASSUME NEW q \in open'
                 PROVE  \/ \E op \in Ops : Owner[op] = q /\ answer'[op] = "running"
                        \/ \E op \in Tx : Owner[op] = q /\ answer'[op] = "no"
    BY DEF Stuck
  <2>2. q \in open /\ q # p
    BY <1>1, <2>1
  <2>3. QED
    BY <2>2 DEF Inv, Stuck
<1>7. AnsweredTrueIsStored'
  BY <1>1, HonestyKept
<1>8. QED
  BY <1>2, <1>3, <1>4, <1>5, <1>6, <1>7 DEF Inv

\* The running call gives up its transaction.
LEMMA GivenUpInv ==
  ASSUME Inv, NEW op \in Ops, answer[op] = "running",
         Discard(Owner[op]), Answer(op, "no")
  PROVE  Inv'
<1>1. /\ answer' \in [Ops -> {"none", "running", "yes", "no", "lost"}]
      /\ answer'[op] = "no"
      /\ \A other \in Ops : other # op => answer'[other] = answer[other]
  BY Answered DEF Inv
<1>2. \A other \in Ops : Owner[other] = Owner[op] /\ answer[other] = "running" => other = op
  BY DEF Inv, RunningOk
<1>3. Owner[op] \in Processes
  OBVIOUS
<1>4. QED
  BY <1>1, <1>2, <1>3, DiscardInv

\* commit() answers false and the transaction stays open.
LEMMA LeftOpenInv ==
  ASSUME Inv, NEW op \in Ops, answer[op] = "running", Answer(op, "no"),
         UNCHANGED <<file, draft, writer, open>>
  PROVE  Inv'
<1>1. /\ answer' \in [Ops -> {"none", "running", "yes", "no", "lost"}]
      /\ answer'[op] = "no"
      /\ \A other \in Ops : other # op => answer'[other] = answer[other]
      /\ op \in Tx
  BY Answered DEF Inv, RunningOk
<1>2. TypeOK' /\ Locks'
  BY <1>1 DEF Inv, TypeOK, Locks
<1>3. RunningOk'
  BY <1>1 DEF Inv, RunningOk, OwnDraft
<1>4. FileOk' /\ PersistedInOrder'
  BY <1>1, FileKept
<1>5. Stuck'
  BY <1>1 DEF Inv, Stuck
<1>6. AnsweredTrueIsStored'
  BY <1>1, HonestyKept
<1>7. QED
  BY <1>2, <1>3, <1>4, <1>5, <1>6 DEF Inv

\* A call that is committed was alone in its transaction.
LEMMA CommittedContent ==
  ASSUME Inv, NEW op \in Ops, Finished(op)
  PROVE  /\ writer = Owner[op] /\ op \in Tx
         /\ OwnDraft(op) /\ draft.rows[op] = Stmts[op] /\ file.rows[op] = 0
         /\ \A o \in Ops : o # op => draft.rows[o] = file.rows[o]
<1>1. answer[op] = "running" /\ View(Owner[op]).rows[op] = Stmts[op] /\ Stmts[op] # 0
  BY DEF Finished
<1>2. file.rows[op] = 0 /\ op \in Tx
  BY <1>1 DEF Inv, FileOk, RunningOk
<1>3. writer = Owner[op] /\ draft.rows[op] = Stmts[op]
  BY <1>1, <1>2 DEF View
<1>4. OwnDraft(op)
  BY <1>1, <1>3 DEF Inv, RunningOk
<1>5. QED
  BY <1>2, <1>3, <1>4 DEF OwnDraft, Inv, TypeOK, Content

LEMMA CommitInv ==
  ASSUME Inv, NEW op \in Ops, Commit(op)
  PROVE  Inv'
<1>1. /\ Finished(op) /\ answer[op] = "running"
      /\ file' = draft /\ draft' = draft /\ writer' = NoOne
      /\ open' = open \ {Owner[op]}
  BY DEF Commit, Finished
<1>2. /\ answer' \in [Ops -> {"none", "running", "yes", "no", "lost"}]
      /\ answer'[op] = "yes"
      /\ \A other \in Ops : other # op => answer'[other] = answer[other]
  BY Answered DEF Inv, Commit
<1>3. /\ writer = Owner[op] /\ op \in Tx /\ Owner[op] \in Processes
      /\ OwnDraft(op) /\ draft.rows[op] = Stmts[op] /\ file.rows[op] = 0
      /\ \A o \in Ops : o # op => draft.rows[o] = file.rows[o]
  BY <1>1, CommittedContent
<1>4. TypeOK' /\ Locks'
  BY <1>1, <1>2 DEF Inv, TypeOK, Locks
<1>5. RunningOk'
  <2>1. SUFFICES ASSUME NEW o \in Ops, answer'[o] = "running"
                 PROVE  /\ o \in Tx
                        /\ Owner[o] \in open'
                        /\ \A other \in Ops :
                             Owner[other] = Owner[o] /\ answer'[other] = "running" => other = o
                        /\ \A a \in After[o] : answer'[a] = "yes"
                        /\ writer' # Owner[o]
    BY DEF RunningOk
  <2>2. o # op /\ answer[o] = "running" /\ Owner[o] # Owner[op] /\ Owner[o] \in Processes
    BY <1>1, <1>2, <2>1 DEF Inv, RunningOk
  <2>3. \A a \in After[o] : a \in Ops
    BY <2>1
  <2>4. QED
    BY <1>1, <1>2, <2>1, <2>2, <2>3 DEF Inv, RunningOk
<1>6. FileOk'
  BY <1>1, <1>2, <1>3 DEF Inv, FileOk
<1>7. Stored' = Stored \cup {op}
  BY <1>1, <1>3 DEF Stored
<1>8. PersistedInOrder'
  <2>1. Refers[op] \subseteq Stored
    BY <1>3 DEF OwnDraft, Inv, FileOk, Stored
  <2>2. After[op] \subseteq Stored
    <3>1. SUFFICES ASSUME NEW a \in After[op] PROVE a \in Stored
      OBVIOUS
    <3>2. CASE a \in Tx
      BY <1>1, <3>2 DEF Inv, RunningOk, FileOk, Stored
    <3>3. CASE a \notin Tx
      BY <2>1, <3>3
    <3>4. QED
      BY <3>2, <3>3
  <2>3. QED
    BY <1>7, <2>1, <2>2 DEF Inv, PersistedInOrder
<1>9. Stuck'
  <2>1. \A q \in open' : q \in open /\ q # Owner[op]
    BY <1>1
  <2>2. QED
    BY <1>2, <2>1 DEF Inv, Stuck
<1>10. AnsweredTrueIsStored'
  BY <1>1, <1>2, <1>7 DEF Inv, AnsweredTrueIsStored
<1>11. QED
  BY <1>4, <1>5, <1>6, <1>8, <1>9, <1>10 DEF Inv

LEMMA SingleInv ==
  ASSUME Inv, NEW op \in Ops, Single(op)
  PROVE  Inv'
<1> DEFINE p == Owner[op]
<1> DEFINE d == View(p)
<1>1. /\ op \notin Tx /\ answer[op] = "none" /\ CanLock(p) /\ Accepts(d, op)
      /\ draft' = Executed(d, op) /\ UNCHANGED open
      /\ \A other \in Ops : Owner[other] = p => answer[other] # "running"
      /\ \A a \in After[op] : answer[a] = "yes"
      /\ p \in open => writer' = p /\ UNCHANGED file
      /\ p \notin open => UNCHANGED writer /\ file' = draft'
  BY DEF Single, Due
<1>2. /\ answer' \in [Ops -> {"none", "running", "yes", "no", "lost"}]
      /\ answer'[op] = "yes"
      /\ \A other \in Ops : other # op => answer'[other] = answer[other]
  BY Answered DEF Inv, Single
<1>3. /\ draft' \in Content
      /\ draft'.rows = [d.rows EXCEPT ![op] = d.rows[op] + 1]
  <2>1. d \in Content
    BY ViewTyped DEF Inv
  <2> HIDE DEF d
  <2>2. QED
    BY <1>1, <2>1, ExecutedContent
<1>4. CASE p \in open
  <2>1. TypeOK' /\ Locks'
    BY <1>1, <1>2, <1>3, <1>4 DEF Inv, TypeOK, Locks
  <2>2. RunningOk'
    BY <1>1, <1>2, <1>4 DEF Inv, RunningOk
  <2>3. FileOk' /\ PersistedInOrder'
    BY <1>1, <1>2, <1>4, FileKept
  <2>4. Stuck'
    BY <1>1, <1>2 DEF Inv, Stuck
  <2>5. \E other \in Tx : Owner[other] = p /\ answer[other] = "no"
    BY <1>1, <1>4 DEF Inv, Stuck
  <2>6. AnsweredTrueIsStored'
    BY <1>1, <1>2, <1>4, <2>5, HonestyKept
  <2>7. QED
    BY <2>1, <2>2, <2>3, <2>4, <2>6 DEF Inv
<1>5. CASE p \notin open
  <2>1. writer = NoOne /\ writer' = NoOne /\ file' = draft' /\ d = file
    BY <1>1, <1>5 DEF Inv, Locks, CanLock, View
  <2>2. file.rows[op] = 0 /\ file.rows \in [Ops -> Nat]
    BY <1>1 DEF Inv, FileOk, TypeOK, Content
  <2>3. file'.rows[op] = 1 /\ \A o \in Ops : o # op => file'.rows[o] = file.rows[o]
    BY <1>3, <2>1, <2>2
  <2>4. TypeOK' /\ Locks'
    BY <1>1, <1>2, <1>3, <2>1 DEF Inv, TypeOK, Locks
  <2>5. RunningOk'
    BY <1>1, <1>2, <2>1 DEF Inv, RunningOk
  <2>6. FileOk'
    BY <1>1, <1>2, <2>3 DEF Inv, FileOk
  <2>7. Stored' = Stored \cup {op}
    BY <1>1, <2>3 DEF Stored
  <2>8. PersistedInOrder'
    <3>1. Refers[op] \subseteq Stored
      <4>1. SUFFICES ASSUME NEW r \in Refers[op] PROVE r \in Stored
        OBVIOUS
      <4>2. r \in Ops /\ file.rows[r] > 0
        BY <1>1, <2>1 DEF Accepts
      <4>3. QED
        BY <2>2, <4>2 DEF Inv, FileOk, Stored
    <3>2. After[op] \subseteq Stored
      <4>1. SUFFICES ASSUME NEW a \in After[op] PROVE a \in Stored
        OBVIOUS
      <4>2. CASE a \in Tx
        BY <1>1, <4>2 DEF Inv, FileOk, Stored
      <4>3. CASE a \notin Tx
        BY <3>1, <4>3
      <4>4. QED
        BY <4>2, <4>3
    <3>3. QED
      BY <2>7, <3>1, <3>2 DEF Inv, PersistedInOrder
  <2>9. Stuck'
    BY <1>1, <1>2 DEF Inv, Stuck
  <2>10. AnsweredTrueIsStored'
    BY <1>1, <1>2, <2>7 DEF Inv, AnsweredTrueIsStored
  <2>11. QED
    BY <2>4, <2>5, <2>6, <2>8, <2>9, <2>10 DEF Inv
<1>6. QED
  BY <1>4, <1>5

LEMMA SingleFailsInv ==
  ASSUME Inv, NEW op \in Ops, SingleFails(op)
  PROVE  Inv'
<1>1. /\ op \notin Tx /\ answer[op] = "none" /\ Answer(op, "no")
      /\ \A other \in Ops : Owner[other] = Owner[op] => answer[other] # "running"
  BY DEF SingleFails, Due
<1>2. CASE UNCHANGED <<file, draft, writer, open>>
  BY <1>1, <1>2, RefusedAtOnceInv
<1>3. CASE Discard(Owner[op])
  <2>1. /\ answer' \in [Ops -> {"none", "running", "yes", "no", "lost"}]
        /\ answer'[op] = "no"
        /\ \A other \in Ops : other # op => answer'[other] = answer[other]
    BY <1>1, Answered DEF Inv
  <2>2. Owner[op] \in Processes
    OBVIOUS
  <2>3. QED
    BY <1>1, <1>3, <2>1, <2>2, DiscardInv
<1>4. QED
  BY <1>2, <1>3 DEF SingleFails

LEMMA DieInv ==
  ASSUME Inv, NEW p \in Processes, Die(p)
  PROVE  Inv'
<1>1. /\ Discard(p)
      /\ answer' = [op \in Ops |-> IF Owner[op] = p /\ Interrupted(op)
                                     THEN "lost" ELSE answer[op]]
  BY DEF Die
<1>2. \A op \in Ops :
        answer[op] \in {"none", "running", "yes", "no", "lost"}
  BY DEF Inv, TypeOK
<1>3. QED
  BY <1>1, <1>2, DiscardInv DEF Interrupted
-----------------------------------------------------------------------------
LEMMA StepInv ==
  ASSUME Inv, [Next]_vars
  PROVE  Inv'
<1>1. CASE UNCHANGED vars
  <2>1. TypeOK' /\ Locks' /\ Stuck'
    BY <1>1 DEF vars, Inv, TypeOK, Locks, Stuck
  <2>2. \A op \in Ops : OwnDraft(op)' <=> OwnDraft(op)
    BY <1>1 DEF vars, OwnDraft
  <2>3. RunningOk'
    BY <1>1, <2>2 DEF vars, Inv, RunningOk
  <2>4. FileOk' /\ PersistedInOrder' /\ AnsweredTrueIsStored'
    BY <1>1, FileKept, HonestyKept DEF vars
  <2>5. QED
    BY <2>1, <2>3, <2>4 DEF Inv
<1>2. ASSUME NEW op \in Ops, BeginFails(op) PROVE Inv'
  BY <1>2, RefusedAtOnceInv DEF BeginFails, Due
<1>3. ASSUME NEW op \in Ops, StatementFails(op) PROVE Inv'
  BY <1>3, GivenUpInv DEF StatementFails
<1>4. ASSUME NEW op \in Ops, CommitFails(op) PROVE Inv'
  BY <1>4, GivenUpInv, LeftOpenInv DEF CommitFails, Finished
<1>5. QED
  BY <1>1, <1>2, <1>3, <1>4, BeginInv, StatementInv, CommitInv, SingleInv, SingleFailsInv,
     DieInv DEF Next

LEMMA Invariant == Spec => []Inv
<1>1. Init => Inv
  BY InitInv
<1>2. Inv /\ [Next]_vars => Inv'
  BY StepInv
<1>3. QED
  BY <1>1, <1>2, PTL DEF Spec

\* The contents of file and draft stay well formed, and no wallet is negative in either.
THEOREM TypeCorrect == Spec => []TypeOK
<1>1. Inv => TypeOK
  BY DEF Inv
<1>2. QED
  BY <1>1, Invariant, PTL

\* Whatever fails and whichever process dies, the file never holds half a call.
THEOREM FileStaysWhole == Spec => []FileIsWhole
<1>1. Inv => FileIsWhole
  BY DEF Inv, FileOk, FileIsWhole
<1>2. QED
  BY <1>1, Invariant, PTL

\* A call that answered false has no effect and never will, whatever becomes of the
\* transaction that its failed COMMIT has left open.
THEOREM RefusalsAreFinal == Spec => []RefusedNeverTakesEffect
<1>1. Inv => RefusedNeverTakesEffect
  BY DEF Inv, FileOk, RefusedNeverTakesEffect
<1>2. QED
  BY <1>1, Invariant, PTL

\* A call that answered true is stored, unless it was a single statement after a
\* transaction of its process had answered false.
THEOREM TrueAnswersAreStored == Spec => []AnsweredTrueIsStored
<1>1. Inv => AnsweredTrueIsStored
  BY DEF Inv
<1>2. QED
  BY <1>1, Invariant, PTL

\* Nothing is stored before what it builds on: no payment without its order's items,
\* no items without their order.
THEOREM StoredInOrder == Spec => []PersistedInOrder
<1>1. Inv => PersistedInOrder
  BY DEF Inv
<1>2. QED
  BY <1>1, Invariant, PTL
-----------------------------------------------------------------------------
(***************************************************************************)
(* The connections implement AtomicStore.                                  *)
(***************************************************************************)
\* What the callers have been told so far.
Told == [op \in Ops |-> IF answer[op] = "running" THEN "none" ELSE answer[op]]

\* A call that takes effect in one step.
LEMMA PerformStep ==
  ASSUME NEW op \in Ops, Told[op] = "none",
         After[op] \subseteq Stored,
         file.balance[Of[op]] + Delta[op] >= 0,
         file'.balance = [file.balance EXCEPT ![Of[op]] = @ + Delta[op]],
         Stored' = Stored \cup {op},
         Told' = [Told EXCEPT ![op] = "yes"]
  PROVE  Promise!Perform(op)
  BY DEF Promise!Perform, Told

\* Answers that change nothing in the file.
LEMMA RefuseStep ==
  ASSUME UNCHANGED file, NEW calls \in SUBSET Ops, NEW a \in {"no", "lost"},
         \A op \in calls : Told[op] = "none",
         Told' = [op \in Ops |-> IF op \in calls THEN a ELSE Told[op]]
  PROVE  Promise!Next
<1>1. Stored' = Stored
  BY DEF Stored
<1>2. Promise!Refuse(calls, a)
  BY <1>1 DEF Promise!Refuse, Told
<1>3. QED
  BY <1>2 DEF Promise!Next

LEMMA RefusedCallStep ==
  ASSUME Inv, NEW op \in Ops, answer[op] \in {"none", "running"}, Answer(op, "no"),
         UNCHANGED file
  PROVE  Promise!Next
<1>1. Told[op] = "none"
  BY DEF Told
<1>2. Told' = [o \in Ops |-> IF o \in {op} THEN "no" ELSE Told[o]]
  BY DEF Told, Answer, Inv, TypeOK
<1>3. {op} \in SUBSET Ops /\ \A o \in {op} : Told[o] = "none"
  BY <1>1
<1>4. QED
  BY <1>2, <1>3, RefuseStep

LEMMA CommitStep ==
  ASSUME Inv, NEW op \in Ops, Commit(op)
  PROVE  Promise!Next
<1>1. Finished(op) /\ answer[op] = "running" /\ file' = draft /\ Answer(op, "yes")
  BY DEF Commit, Finished
<1>2. /\ op \in Tx /\ OwnDraft(op) /\ draft.rows[op] = Stmts[op]
      /\ \A o \in Ops : o # op => draft.rows[o] = file.rows[o]
  BY <1>1, CommittedContent
<1>3. Stored' = Stored \cup {op}
  BY <1>1, <1>2 DEF Stored
<1>4. After[op] \subseteq Stored
  <2>1. Inv'
    BY CommitInv
  <2>2. \A a \in After[op] : a # op
    BY <1>1 DEF Inv, RunningOk
  <2>3. QED
    BY <1>3, <2>1, <2>2 DEF Inv, PersistedInOrder
<1>5. file.balance[Of[op]] + Delta[op] >= 0
  <2>1. file.balance \in [Users -> Nat] /\ draft.balance \in [Users -> Nat] /\ Of[op] \in Users
    BY DEF Inv, TypeOK, Content
  <2>2. draft.balance[Of[op]] = file.balance[Of[op]] + Delta[op]
    BY <1>2, <2>1 DEF OwnDraft
  <2>3. draft.balance[Of[op]] \in Nat
    BY <2>1
  <2>4. QED
    BY <2>2, <2>3
<1>6. file'.balance = [file.balance EXCEPT ![Of[op]] = @ + Delta[op]]
  BY <1>1, <1>2 DEF OwnDraft
<1>7. Told[op] = "none" /\ Told' = [Told EXCEPT ![op] = "yes"]
  BY <1>1 DEF Told, Answer, Inv, TypeOK
<1>8. QED
  BY <1>3, <1>4, <1>5, <1>6, <1>7, PerformStep DEF Promise!Next

LEMMA SingleStep ==
  ASSUME Inv, NEW op \in Ops, Single(op)
  PROVE  Promise!Next
<1> DEFINE p == Owner[op]
<1>1. /\ op \notin Tx /\ answer[op] = "none" /\ CanLock(p) /\ Accepts(View(p), op)
      /\ Answer(op, "yes") /\ draft' = Executed(View(p), op)
      /\ p \in open => UNCHANGED file
      /\ p \notin open => file' = draft'
  BY DEF Single, Due
<1>2. Told[op] = "none" /\ Told' = [Told EXCEPT ![op] = "yes"]
  BY <1>1 DEF Told, Answer, Inv, TypeOK
<1>3. CASE p \in open
  <2>1. Stored' = Stored
    BY <1>1, <1>3 DEF Stored
  <2>2. Promise!Forget(op)
    BY <1>1, <1>2, <1>3, <2>1 DEF Promise!Forget, Told
  <2>3. QED
    BY <2>2 DEF Promise!Next
<1>4. CASE p \notin open
  <2>1. View(p) = file
    BY <1>1, <1>4 DEF Inv, Locks, CanLock, View
  <2>2. file.rows[op] = 0 /\ file \in Content
    BY <1>1 DEF Inv, FileOk, TypeOK
  <2>3. /\ file'.rows = [file.rows EXCEPT ![op] = file.rows[op] + 1]
        /\ file'.balance = [file.balance EXCEPT ![Of[op]] = @ + Delta[op]]
    <3>1. Accepts(file, op) /\ file' = Executed(file, op)
      BY <1>1, <1>4, <2>1
    <3>2. QED
      BY <2>2, <3>1, ExecutedContent
  <2>4. file'.rows[op] = 1 /\ \A o \in Ops : o # op => file'.rows[o] = file.rows[o]
    BY <2>2, <2>3 DEF Content
  <2>5. Stored' = Stored \cup {op} /\ op \notin Stored
    BY <1>1, <2>2, <2>4 DEF Stored
  <2>6. file.balance[Of[op]] + Delta[op] >= 0
    BY <1>1, <2>1, <2>2 DEF Accepts
  <2>7. After[op] \subseteq Stored
    <3>1. Inv'
      BY SingleInv
    <3>2. \A a \in After[op] : answer[a] = "yes"
      BY DEF Single, Due
    <3>3. QED
      BY <1>1, <2>5, <3>1, <3>2 DEF Inv, PersistedInOrder
  <2>8. QED
    BY <1>2, <2>3, <2>5, <2>6, <2>7, PerformStep DEF Promise!Next
<1>5. QED
  BY <1>3, <1>4

LEMMA DieStep ==
  ASSUME Inv, NEW p \in Processes, Die(p)
  PROVE  Promise!Next
<1> DEFINE calls == {op \in Ops : Owner[op] = p /\ Interrupted(op)}
<1>1. UNCHANGED file
  BY DEF Die, Discard
<1>2. \A op \in calls : Told[op] = "none"
  BY DEF Told, Interrupted
<1>3. Told' = [op \in Ops |-> IF op \in calls THEN "lost" ELSE Told[op]]
  BY DEF Told, Die
<1>4. QED
  BY <1>1, <1>2, <1>3, RefuseStep

\* A step that opens the transaction or writes into the draft is not seen.
LEMMA HiddenStep ==
  ASSUME Inv, NEW op \in Ops, Begin(op) \/ Statement(op)
  PROVE  UNCHANGED Promise!vars
<1>1. UNCHANGED file
  BY DEF Begin, Statement
<1>2. Told' = Told
  BY DEF Told, Begin, Statement, Due, Answer, Inv, TypeOK
<1>3. QED
  BY <1>1, <1>2 DEF Promise!vars, Stored, Told

\* BEGIN, locks, statements, COMMITs that fail and processes that die implement the
\* atomic store.
THEOREM ImplementsAtomicStore == Spec => Atomicity
<1>1. Init => Promise!Init
  <2>1. SUFFICES ASSUME Init PROVE Promise!Init
    OBVIOUS
  <2>2. Stored = {}
    BY <2>1 DEF Init, Stored
  <2>3. QED
    BY <2>1, <2>2 DEF Init, Promise!Init
<1>2. Inv /\ [Next]_vars => [Promise!Next]_(Promise!vars)
  <2>1. SUFFICES ASSUME Inv, [Next]_vars PROVE [Promise!Next]_(Promise!vars)
    OBVIOUS
  <2>2. CASE UNCHANGED vars
    BY <2>2 DEF vars, Promise!vars, Stored
  <2>3. ASSUME NEW op \in Ops,
               BeginFails(op) \/ StatementFails(op) \/ CommitFails(op) \/ SingleFails(op)
        PROVE  Promise!Next
    <3>1. answer[op] \in {"none", "running"} /\ Answer(op, "no") /\ UNCHANGED file
      BY <2>3 DEF BeginFails, StatementFails, CommitFails, SingleFails, Due, Finished, Discard
    <3>2. QED
      BY <2>1, <3>1, RefusedCallStep
  <2>4. QED
    BY <2>1, <2>2, <2>3, CommitStep, SingleStep, DieStep, HiddenStep DEF Next
<1>3. QED
  BY <1>1, <1>2, Invariant, PTL DEF Spec, Atomicity, Promise!Spec
=============================================================================
