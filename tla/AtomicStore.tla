---------------------------- MODULE AtomicStore -----------------------------
(***************************************************************************)
(* What DataBaseHandler's writing functions promise to their callers, as   *)
(* one machine without connections, locks or statements.  A function that  *)
(* answers true has taken effect, all of it at once; one that answers      *)
(* false, or whose process died, never takes effect.  A function of a      *)
(* single statement may have answered true for nothing: that is the one    *)
(* promise the program does not keep (see Transactions).                   *)
(***************************************************************************)
EXTENDS Integers

CONSTANTS
  Ops,      \* calls of writing functions
  Tx,       \* those that run in a transaction of their own
  Users,
  Of,       \* whose wallet a call changes
  Delta,    \* and by how much: a top-up, minus a payment, or 0
  After     \* the calls that must have answered true before this one is made

VARIABLES
  balance,  \* users.balance
  done,     \* the calls that have taken effect
  answer    \* what each caller was told: "none", "yes", "no" or "lost"

vars == <<balance, done, answer>>

Init ==
  /\ balance = [u \in Users |-> 0]
  /\ done = {}
  /\ answer = [op \in Ops |-> "none"]

\* The call takes effect and says so.  No wallet goes below zero, and what the
\* call builds on is there.
Perform(op) ==
  /\ answer[op] = "none"
  /\ After[op] \subseteq done
  /\ balance[Of[op]] + Delta[op] >= 0
  /\ balance' = [balance EXCEPT ![Of[op]] = @ + Delta[op]]
  /\ done' = done \cup {op}
  /\ answer' = [answer EXCEPT ![op] = "yes"]

\* A call fails, or a process dies and leaves several unanswered.
Refuse(calls, a) ==
  /\ \A op \in calls : answer[op] = "none"
  /\ answer' = [op \in Ops |-> IF op \in calls THEN a ELSE answer[op]]
  /\ UNCHANGED <<balance, done>>

\* A single statement is accepted that will not last.
Forget(op) ==
  /\ op \notin Tx
  /\ answer[op] = "none"
  /\ answer' = [answer EXCEPT ![op] = "yes"]
  /\ UNCHANGED <<balance, done>>

Next ==
  \/ \E op \in Ops : Perform(op) \/ Forget(op)
  \/ \E calls \in SUBSET Ops, a \in {"no", "lost"} : Refuse(calls, a)

Spec == Init /\ [][Next]_vars
=============================================================================
