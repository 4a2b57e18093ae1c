--------------------------- MODULE MCTransactions ---------------------------
(***************************************************************************)
(* A client that tops up a wallet, places an order with two lines and pays *)
(* it by wallet, beside a server that tops up the same wallet, changes the *)
(* order's status and stores its review.                                   *)
(***************************************************************************)
EXTENDS Transactions, TLC

CONSTANTS client, server, u1

OneClientOneServer == {client, server}
OneUser == {u1}

Calls == {"charge", "create", "items", "pay", "consume", "topup", "status", "review"}
Transactional == {"charge", "items", "pay", "topup", "review"}

CallOwner == [op \in Calls |-> IF op \in {"topup", "status", "review"} THEN server ELSE client]
CallOf == [op \in Calls |-> u1]

\* Either top-up alone does not pay for the order.
CallDelta ==
  [op \in Calls |-> CASE op \in {"charge", "topup"} -> 1 [] op = "pay" -> -2 [] OTHER -> 0]

\* The order has two lines; a top-up, a payment and a review are two statements.
CallStmts == [op \in Calls |-> IF op \in Transactional THEN 2 ELSE 1]

\* order_items and reviews name their order by a foreign key, and an UPDATE that
\* affects no row is a failure.
CallRefers ==
  [op \in Calls |-> IF op \in {"items", "review", "status"} THEN {"create"} ELSE {}]

\* The server hears of the order once it has been placed.
CallAfter ==
  [op \in Calls |-> CASE op = "items" -> {"create"}
                      [] op = "pay" -> {"items"}
                      [] op = "consume" -> {"pay"}
                      [] op = "status" -> {"items"}
                      [] op = "review" -> {"items"}
                      [] OTHER -> {}]
=============================================================================
